---- MODULE Spec2Model ----
(***************************************************************************)
(* Daily revenue computation of the clinic dashboard (fetchTodayStats):    *)
(* the appointments and doctors tables, the per-appointment prior-visit    *)
(* lookup, the free-return test and the fee cascade.                       *)
(***************************************************************************)
EXTENDS Integers, Sequences, FiniteSets, TLC

(* ------------------------------ bounds --------------------------------- *)
\* number of rows of the appointments table
MaxAppts == 2
\* appointment dates are day numbers 0 .. MaxDay
MaxDay == 3
\* largest free_return_days a doctor row holds
MaxFreeDays == 1
\* fetchTodayStats calls in flight at once
MaxInvocations == 2
\* appointments the booking form can add to the table
MaxBooked == 2
\* length of the strings handed to sanitizeSearchInput and to useSearch
MaxLen == 3

(* --------------------------- nullable values --------------------------- *)
\* A nullable column holds Null or Some(v).
Null == << >>
Some(v) == << v >>

PatientIds == {"p1", "p2"}
DoctorIds == {"d1"}
Statuses == {"completed", "scheduled"}
Days == 0 .. MaxDay
\* the evaluated day: the table also holds one later day
Today == MaxDay - 1
Costs == {Null, Some(0), Some(40)}
ConsultationFees == {Null, Some(0), Some(50)}
ReturnFees == {Null, Some(0), Some(30)}
FreeReturnDays == {Null} \cup {Some(n) : n \in 0 .. MaxFreeDays}

\* rows of public.appointments (the columns the dashboard reads): the
\* completed rows of the evaluated day take every cost and flag; the other
\* rows keep the column defaults cost 0, is_return_visit false, and are the
\* completed rows of every day and the scheduled rows of the evaluated day
\* (a row that is neither is read by no query of the dashboard)
AppointmentRow ==
    [patient_id : PatientIds, doctor_id : DoctorIds, appointment_date : {Today},
     status : {"completed"}, cost : Costs, is_return_visit : BOOLEAN]
    \cup
    [patient_id : PatientIds, doctor_id : DoctorIds, appointment_date : Days,
     status : {"completed"}, cost : {Some(0)}, is_return_visit : {FALSE}]
    \cup
    [patient_id : PatientIds, doctor_id : DoctorIds, appointment_date : {Today},
     status : Statuses \ {"completed"}, cost : {Some(0)}, is_return_visit : {FALSE}]

\* the fee columns of a row of public.doctors
DoctorRow ==
    [consultation_fee : ConsultationFees,
     return_consultation_fee : ReturnFees,
     free_return_days : FreeReturnDays]

VARIABLES
    appointments,           \* table appointments: id -> row
    doctors,                \* table doctors: doctor id -> Null | Some(row)
    today,                  \* the day the dashboard evaluates
    pc,                     \* position of fetchTodayStats
    completedAppointments,  \* today's completed appointments, as fetched
    idx,                    \* position of the for-of loop in that list
    lastVisit,              \* result of the prior-visit lookup
    totalRevenue,           \* the accumulator
    contributions,          \* the operand of each totalRevenue +=, in loop order
    todayStats,             \* the published statistics
    isLoading,
    erroredLookups          \* appointments whose prior-visit query returned an error

VARIABLES
    invocations,            \* overlapping fetchTodayStats calls: id -> local state
    policies,               \* row-level policies in force
    patients,               \* table patients: the ids of its rows
    lastRequest,            \* the last database request and its outcome
    searchInput,            \* argument of sanitizeSearchInput
    sanitizedTerm,          \* its result
    data,                   \* useSearch: the list handed to the hook
    options,                \* useSearch: fields, caseSensitive, minChars
    searchTerm,             \* useSearch: the term state
    filteredData            \* useSearch: the memoised result

VARIABLES
    auth,                   \* ProtectedRoute: the value of useAuth()
    routeProps,             \* ProtectedRoute: requireAuth, allowedRoles
    rendered,               \* ProtectedRoute: what the last render returned
    navigated               \* ProtectedRoute: the navigate() of the last effect

VARIABLES
    roleRows,               \* table user_roles: its (user_id, role) pairs
    doctorUsers,            \* table doctors: the user_id column
    shownRoles,             \* Users page: the role shown for each user
    listedRoles,            \* Settings page: the listed user_roles rows
    lastRoleChange          \* the last role change and its outcome

VARIABLES
    selectedDoctor,         \* Doctors page: the doctor of the edit dialog
    editValues,             \* Doctors page: the values of the edit form
    touched                 \* the fields the editor has changed since the dialog opened

VARIABLES
    searches,               \* quick booking: the searchPatient calls, in the order of the keystrokes
    searchResults,          \* quick booking: the patients listed under the search box
    isSearching             \* quick booking: the spinner of the search box

VARIABLES
    centerSettings,         \* table center_settings: the ids of its rows
    settingsCalls           \* the fetchSettings calls: id -> session and position

\* the state of one fetchTodayStats call and of the component it updates
fetchVars == << today, pc, completedAppointments, idx, lastVisit, totalRevenue,
                contributions, todayStats, isLoading, erroredLookups >>

overlapVars == << invocations >>
requestVars == << policies, patients, lastRequest >>
sanitizeVars == << searchInput, sanitizedTerm >>
searchVars == << data, options, searchTerm, filteredData >>

routeVars == << auth, routeProps, rendered, navigated >>

roleVars == << roleRows, doctorUsers, shownRoles, listedRoles, lastRoleChange >>

doctorFormVars == << selectedDoctor, editValues, touched >>

patientSearchVars == << searches, searchResults, isSearching >>

settingsVars == << centerSettings, settingsCalls >>

\* the pages and components besides the dashboard
pageVars == << routeVars, roleVars, doctorFormVars, patientSearchVars, settingsVars >>

\* everything outside the dashboard and its two tables
outsideDashboard == << overlapVars, requestVars, sanitizeVars, searchVars, pageVars >>

vars == << appointments, doctors, fetchVars, outsideDashboard >>

(* ------------------------- JavaScript helpers -------------------------- *)
\* truthiness of a nullable number: null, undefined and 0 are falsy
Truthy(x) == x # Null /\ x[1] # 0

\* a || b
OrElse(a, b) == IF Truthy(a) THEN a ELSE b

\* variant: a missing doctor is read as a doctor charging 50
DoctorFieldWithDefaultFee(doc, f) ==
    IF doc = Null
    THEN IF f = "free_return_days" THEN Null ELSE << 50 >>
    ELSE doc[1][f]

\* apt.doctors?.field : undefined (Null) when the joined doctor is missing
DoctorField(doc, f) == IF doc = Null THEN Null ELSE doc[1][f]

\* 1000 * 60 * 60 * 24
MsPerDay == 86400000

\* new Date('YYYY-MM-DD').getTime(): UTC midnight of the day, in ms
GetTime(day) == day * MsPerDay

\* Math.floor((currentDate.getTime() - lastVisitDate.getTime()) / MsPerDay)
DaysDiff(currentDay, lastDay) == (GetTime(currentDay) - GetTime(lastDay)) \div MsPerDay

(* ------------------------------ queries -------------------------------- *)
\* the embedded doctors(...) object of a fetched appointment
JoinedDoctor(apt) == doctors[apt.doctor_id]

\* rows of today: .eq('appointment_date', today)
TodaysAppointments ==
    {i \in DOMAIN appointments : appointments[i].appointment_date = today}

\* variant: rows of status 'return' counted as completed
CompletedTodayOrReturn ==
    {i \in TodaysAppointments : appointments[i].status \in {"completed", "return"}}

\* appointments?.filter(apt => apt.status === 'completed')
CompletedToday == {i \in TodaysAppointments : appointments[i].status = "completed"}

\* appointments?.filter(apt => apt.status === 'scheduled' || apt.status === 'waiting')
WaitingToday ==
    {i \in TodaysAppointments : appointments[i].status \in {"scheduled", "waiting"}}

\* variant: the prior-visit query without .eq('patient_id', apt.patient_id)
PriorVisitRowsOfAnyPatient(i) ==
    {j \in DOMAIN appointments :
        /\ appointments[j].doctor_id = appointments[i].doctor_id
        /\ appointments[j].status = "completed"
        /\ j # i}

\* rows matched by the prior-visit query of appointment i
PriorVisitRows(i) ==
    {j \in DOMAIN appointments :
        /\ appointments[j].patient_id = appointments[i].patient_id
        /\ appointments[j].doctor_id = appointments[i].doctor_id
        /\ appointments[j].status = "completed"
        /\ j # i}

\* variant: the prior-visit query ordered with ascending: true
IsFirstInAscendingOrder(j, rows) ==
    \A k \in rows : appointments[j].appointment_date <= appointments[k].appointment_date

\* .order('appointment_date', {ascending: false}).limit(1).maybeSingle()
IsFirstInOrder(j, rows) ==
    \A k \in rows : appointments[k].appointment_date <= appointments[j].appointment_date

(* --------------------------- the fee cascade --------------------------- *)
\* variant: consultation_fee consulted before return_consultation_fee
PaidReturnAmountStandardFeeFirst(apt) ==
    OrElse(apt.cost,
        OrElse(DoctorField(JoinedDoctor(apt), "consultation_fee"),
            OrElse(DoctorField(JoinedDoctor(apt), "return_consultation_fee"), Some(0))))[1]

\* apt.cost || doctors?.return_consultation_fee || doctors?.consultation_fee || 0
PaidReturnAmount(apt) ==
    OrElse(apt.cost,
        OrElse(DoctorField(JoinedDoctor(apt), "return_consultation_fee"),
            OrElse(DoctorField(JoinedDoctor(apt), "consultation_fee"), Some(0))))[1]

\* variant: a new visit billed through the return-visit cascade
PaidNewAmountViaReturnFee(apt) ==
    OrElse(apt.cost,
        OrElse(DoctorField(JoinedDoctor(apt), "return_consultation_fee"),
            OrElse(DoctorField(JoinedDoctor(apt), "consultation_fee"), Some(0))))[1]

\* apt.cost || doctors?.consultation_fee || 0
PaidNewAmount(apt) ==
    OrElse(apt.cost,
        OrElse(DoctorField(JoinedDoctor(apt), "consultation_fee"), Some(0)))[1]

\* lastVisit && apt.doctors?.free_return_days
HasGraceReference(apt, last) ==
    last # Null /\ Truthy(DoctorField(JoinedDoctor(apt), "free_return_days"))

\* variant: the window closes one day late
WithinFreeReturnOffByOne(apt, last) ==
    DaysDiff(apt.appointment_date, last[1])
        <= DoctorField(JoinedDoctor(apt), "free_return_days")[1] + 1

\* variant: the last day of the window is excluded
WithinFreeReturnStrict(apt, last) ==
    DaysDiff(apt.appointment_date, last[1])
        < DoctorField(JoinedDoctor(apt), "free_return_days")[1]

\* variant: the window is one day shorter than free_return_days
WithinFreeReturnOneDayShort(apt, last) ==
    DaysDiff(apt.appointment_date, last[1])
        <= DoctorField(JoinedDoctor(apt), "free_return_days")[1] - 1

\* daysDiff <= apt.doctors.free_return_days
WithinFreeReturn(apt, last) ==
    DaysDiff(apt.appointment_date, last[1])
        <= DoctorField(JoinedDoctor(apt), "free_return_days")[1]

\* the operand of totalRevenue += for one appointment
Contribution(apt, last) ==
    IF apt.is_return_visit
    THEN IF HasGraceReference(apt, last)
         THEN IF WithinFreeReturn(apt, last) THEN 0 ELSE PaidReturnAmount(apt)
         ELSE PaidReturnAmount(apt)
    ELSE PaidNewAmount(apt)

(* ------------------------------ behaviour ------------------------------ *)
\* all orders in which a set of rows can come back from the database
Orderings(S) ==
    {s \in [1 .. Cardinality(S) -> S] : \A a, b \in DOMAIN s : a # b => s[a] # s[b]}

\* useState({appointments: 0, waiting: 0, revenue: 0, completed: 0, ...})
InitialStats == [appointments |-> 0, waiting |-> 0, revenue |-> 0, completed |-> 0]

\* the state of the components and tables a specification leaves out
OverlapIdle == invocations = << >>
RequestsIdle == policies = {} /\ patients = {} /\ lastRequest = Null
SanitizeIdle == searchInput = Null /\ sanitizedTerm = Null
SearchIdle == data = << >> /\ options = Null /\ searchTerm = << >> /\ filteredData = << >>
RouteIdle == auth = Null /\ routeProps = Null /\ rendered = Null /\ navigated = Null
RolesIdle == roleRows = {} /\ doctorUsers = {} /\ shownRoles = Null /\ listedRoles = {} /\ lastRoleChange = Null
DoctorFormIdle == selectedDoctor = Null /\ editValues = Null /\ touched = {}
PatientSearchIdle == searches = << >> /\ searchResults = {} /\ isSearching = FALSE
SettingsIdle == centerSettings = {} /\ settingsCalls = << >>
PagesIdle == RouteIdle /\ RolesIdle /\ DoctorFormIdle /\ PatientSearchIdle /\ SettingsIdle
\* what lies besides one page, and its state at rest
besidesRoute ==
    << overlapVars, requestVars, sanitizeVars, searchVars, roleVars, doctorFormVars, patientSearchVars, settingsVars >>
BesidesRouteIdle ==
    OverlapIdle /\ RequestsIdle /\ SanitizeIdle /\ SearchIdle /\ RolesIdle /\ DoctorFormIdle /\ PatientSearchIdle /\ SettingsIdle
besidesRole ==
    << overlapVars, requestVars, sanitizeVars, searchVars, routeVars, doctorFormVars, patientSearchVars, settingsVars >>
BesidesRoleIdle ==
    OverlapIdle /\ RequestsIdle /\ SanitizeIdle /\ SearchIdle /\ RouteIdle /\ DoctorFormIdle /\ PatientSearchIdle /\ SettingsIdle
besidesDoctorForm ==
    << overlapVars, requestVars, sanitizeVars, searchVars, routeVars, roleVars, patientSearchVars, settingsVars >>
BesidesDoctorFormIdle ==
    OverlapIdle /\ RequestsIdle /\ SanitizeIdle /\ SearchIdle /\ RouteIdle /\ RolesIdle /\ PatientSearchIdle /\ SettingsIdle
besidesPatientSearch ==
    << overlapVars, requestVars, sanitizeVars, searchVars, routeVars, roleVars, doctorFormVars, settingsVars >>
BesidesPatientSearchIdle ==
    OverlapIdle /\ RequestsIdle /\ SanitizeIdle /\ SearchIdle /\ RouteIdle /\ RolesIdle /\ DoctorFormIdle /\ SettingsIdle
besidesSettings ==
    << overlapVars, requestVars, sanitizeVars, searchVars, routeVars, roleVars, doctorFormVars, patientSearchVars >>
BesidesSettingsIdle ==
    OverlapIdle /\ RequestsIdle /\ SanitizeIdle /\ SearchIdle /\ RouteIdle /\ RolesIdle /\ DoctorFormIdle /\ PatientSearchIdle
OutsideDashboardIdle == OverlapIdle /\ RequestsIdle /\ SanitizeIdle /\ SearchIdle /\ PagesIdle

Init ==
    /\ appointments \in [1 .. MaxAppts -> AppointmentRow]
    /\ doctors \in [DoctorIds -> {Null} \cup {Some(d) : d \in DoctorRow}]
    /\ today = Today
    /\ pc = "idle"
    /\ completedAppointments = << >>
    /\ idx = 1
    /\ lastVisit = Null
    /\ totalRevenue = 0
    /\ contributions = << >>
    /\ todayStats = InitialStats
    /\ isLoading = TRUE
    /\ erroredLookups = {}
    /\ OutsideDashboardIdle

\* setIsLoading(true); fetch today's appointments; filter; totalRevenue = 0
FetchAppointments ==
    /\ pc = "idle"
    /\ isLoading' = TRUE
    /\ \E order \in Orderings(CompletedToday) : completedAppointments' = order
    /\ idx' = 1
    /\ totalRevenue' = 0
    /\ contributions' = << >>
    /\ lastVisit' = Null
    /\ pc' = "loop"
    /\ erroredLookups' = {}
    /\ UNCHANGED << appointments, doctors, today, todayStats >>
    /\ UNCHANGED outsideDashboard

CurrentApt == appointments[completedAppointments[idx]]

\* a return visit: await the prior-visit query
LookupLastVisit ==
    /\ pc = "loop"
    /\ idx <= Len(completedAppointments)
    /\ CurrentApt.is_return_visit
    /\ LET rows == PriorVisitRows(completedAppointments[idx]) IN
         \/ /\ rows = {}
            /\ lastVisit' = Null
         \/ \E j \in rows :
              /\ IsFirstInOrder(j, rows)
              /\ lastVisit' = Some(appointments[j].appointment_date)
    /\ pc' = "add"
    /\ UNCHANGED << appointments, doctors, today, completedAppointments, idx,
                    totalRevenue, contributions, todayStats, isLoading,
                    erroredLookups >>
    /\ UNCHANGED outsideDashboard

\* variant: totalRevenue = ... in place of totalRevenue += ...
AddReturnVisitOverwriting ==
    /\ pc = "add"
    /\ totalRevenue' = Contribution(appointments[completedAppointments[idx]], lastVisit)
    /\ contributions' =
          Append(contributions,
                 Contribution(appointments[completedAppointments[idx]], lastVisit))
    /\ idx' = idx + 1
    /\ lastVisit' = Null
    /\ pc' = "loop"
    /\ UNCHANGED << appointments, doctors, today, completedAppointments,
                    todayStats, isLoading, erroredLookups >>
    /\ UNCHANGED outsideDashboard

\* totalRevenue += ... for a return visit, after its lookup
AddReturnVisit ==
    /\ pc = "add"
    /\ totalRevenue' = totalRevenue + Contribution(CurrentApt, lastVisit)
    /\ contributions' = Append(contributions, Contribution(CurrentApt, lastVisit))
    /\ idx' = idx + 1
    /\ lastVisit' = Null
    /\ pc' = "loop"
    /\ UNCHANGED << appointments, doctors, today, completedAppointments,
                    todayStats, isLoading, erroredLookups >>
    /\ UNCHANGED outsideDashboard

\* totalRevenue += ... for a visit that is not a return visit
AddNewVisit ==
    /\ pc = "loop"
    /\ idx <= Len(completedAppointments)
    /\ ~CurrentApt.is_return_visit
    /\ totalRevenue' = totalRevenue + Contribution(CurrentApt, Null)
    /\ contributions' = Append(contributions, Contribution(CurrentApt, Null))
    /\ idx' = idx + 1
    /\ UNCHANGED << appointments, doctors, today, pc, completedAppointments,
                    lastVisit, todayStats, isLoading, erroredLookups >>
    /\ UNCHANGED outsideDashboard

\* variant: the computed revenue is written back to the totalled rows
PublishStatsPersisting ==
    /\ pc = "loop"
    /\ idx > Len(completedAppointments)
    /\ todayStats' = [appointments |-> Cardinality(TodaysAppointments),
                      waiting |-> Cardinality(WaitingToday),
                      revenue |-> totalRevenue,
                      completed |-> Len(completedAppointments)]
    /\ appointments' =
          [i \in DOMAIN appointments |->
              IF \E k \in DOMAIN completedAppointments : completedAppointments[k] = i
              THEN [appointments[i] EXCEPT !.cost = Some(totalRevenue)]
              ELSE appointments[i]]
    /\ isLoading' = FALSE
    /\ pc' = "done"
    /\ UNCHANGED << doctors, today, completedAppointments, idx,
                    lastVisit, totalRevenue, contributions, erroredLookups >>
    /\ UNCHANGED outsideDashboard

\* setTodayStats({...}); finally setIsLoading(false).  The three count
\* queries on patients and doctors read tables that are not part of this
\* state; their fields of todayStats are left out.
PublishStats ==
    /\ pc = "loop"
    /\ idx > Len(completedAppointments)
    /\ todayStats' = [appointments |-> Cardinality(TodaysAppointments),
                      waiting |-> Cardinality(WaitingToday),
                      revenue |-> totalRevenue,
                      completed |-> Len(completedAppointments)]
    /\ isLoading' = FALSE
    /\ pc' = "done"
    /\ UNCHANGED << appointments, doctors, today, completedAppointments, idx,
                    lastVisit, totalRevenue, contributions, erroredLookups >>
    /\ UNCHANGED outsideDashboard

Next ==
    \/ FetchAppointments
    \/ LookupLastVisit
    \/ AddReturnVisit
    \/ AddNewVisit
    \/ PublishStats

Spec == Init /\ [][Next]_vars

(* ------------------- the worked examples' databases -------------------- *)
\* The doctor of the worked example: consultation_fee 50,
\* return_consultation_fee 30 or unset, free_return_days 7.
ExampleDoctors ==
    {[d \in DoctorIds |->
        Some([consultation_fee |-> Some(50), return_consultation_fee |-> rf,
              free_return_days |-> Some(7)])] : rf \in {Some(30), Null}}

ExampleDays == 0 .. 8

\* Three completed appointments of the evaluated day (a new visit costing
\* 100, a return visit without cost, a return visit costing 40) and one
\* earlier completed visit for each return visit.
ExampleAppointments(day, newPatient, prior2, prior4) ==
    << [patient_id |-> newPatient, doctor_id |-> "d1", appointment_date |-> day,
        status |-> "completed", cost |-> Some(100), is_return_visit |-> FALSE],
       [patient_id |-> "p2", doctor_id |-> "d1", appointment_date |-> day,
        status |-> "completed", cost |-> Null, is_return_visit |-> TRUE],
       [patient_id |-> "p2", doctor_id |-> "d1", appointment_date |-> prior2,
        status |-> "completed", cost |-> Some(0), is_return_visit |-> FALSE],
       [patient_id |-> "p3", doctor_id |-> "d1", appointment_date |-> day,
        status |-> "completed", cost |-> Some(40), is_return_visit |-> TRUE],
       [patient_id |-> "p3", doctor_id |-> "d1", appointment_date |-> prior4,
        status |-> "completed", cost |-> Some(0), is_return_visit |-> FALSE] >>

ExampleInit ==
    /\ today \in {7, 8}
    /\ \E newPatient \in {"p1", "p2", "p3"}, prior2, prior4 \in ExampleDays :
         /\ prior2 < today
         /\ prior4 < today
         /\ appointments = ExampleAppointments(today, newPatient, prior2, prior4)
    /\ doctors \in ExampleDoctors
    /\ pc = "idle"
    /\ completedAppointments = << >>
    /\ idx = 1
    /\ lastVisit = Null
    /\ totalRevenue = 0
    /\ contributions = << >>
    /\ todayStats = InitialStats
    /\ isLoading = TRUE
    /\ erroredLookups = {}
    /\ OutsideDashboardIdle

SpecExample == ExampleInit /\ [][Next]_vars

(* ------------------- a table holding every status ---------------------- *)
\* CREATE TYPE public.appointment_status AS ENUM (...)
AppointmentStatus == {"scheduled", "waiting", "completed", "return", "cancelled"}

\* rows of one patient on the evaluated day and the day before, of every
\* status, cost and flag
StatusRow ==
    [patient_id : {"p1"}, doctor_id : DoctorIds, appointment_date : {Today - 1, Today},
     status : AppointmentStatus, cost : {Some(0), Some(40)}, is_return_visit : BOOLEAN]

\* a doctor charging 50, 30 for a return visit, with or without a window
StatusDoctors ==
    {[d \in DoctorIds |->
        Some([consultation_fee |-> Some(50), return_consultation_fee |-> Some(30),
              free_return_days |-> n])] : n \in {Some(0), Some(1)}}

\* the dashboard before its first fetchTodayStats, nothing else running
DashboardAtRest ==
    /\ today = Today
    /\ pc = "idle"
    /\ completedAppointments = << >>
    /\ idx = 1
    /\ lastVisit = Null
    /\ totalRevenue = 0
    /\ contributions = << >>
    /\ todayStats = InitialStats
    /\ isLoading = TRUE
    /\ erroredLookups = {}
    /\ OutsideDashboardIdle

StatusInit ==
    /\ appointments \in [1 .. MaxAppts -> StatusRow]
    /\ doctors \in StatusDoctors
    /\ DashboardAtRest

SpecStatuses == StatusInit /\ [][Next]_vars

(* -------------------------- the doctor forms --------------------------- *)
\* what the number inputs of the add and edit dialogs can hold
FormFees == {-50, 0, 50}
FormReturnFees == {-30, 0, 30}
FormFreeDays == -1 .. MaxFreeDays

\* the values of a doctor form (the fields its validation reads, and the fees)
DoctorFormValues ==
    [doctor_name : {"", "Dr"}, specialization : {"", "ENT"},
     consultation_fee : FormFees, return_consultation_fee : FormReturnFees,
     free_return_days : FormFreeDays]

\* validateAdd(values): the fields with an error (user_id is the doctor
\* the action is taken for, always chosen)
validateAdd(values) ==
    (IF values.doctor_name = "" THEN {"doctor_name"} ELSE {})
    \cup (IF values.specialization = "" THEN {"specialization"} ELSE {})
    \cup (IF values.consultation_fee < 0 THEN {"consultation_fee"} ELSE {})
    \cup (IF values.free_return_days < 0 THEN {"free_return_days"} ELSE {})

\* validateEdit(values)
validateEdit(values) ==
    (IF values.doctor_name = "" THEN {"doctor_name"} ELSE {})
    \cup (IF values.specialization = "" THEN {"specialization"} ELSE {})
    \cup (IF values.consultation_fee < 0 THEN {"consultation_fee"} ELSE {})
    \cup (IF values.free_return_days < 0 THEN {"free_return_days"} ELSE {})

\* the fee columns written by .insert({...}) and .update({...})
StoredFees(values) ==
    Some([consultation_fee |-> Some(values.consultation_fee),
          return_consultation_fee |-> Some(values.return_consultation_fee),
          free_return_days |-> Some(values.free_return_days)])

\* handleAddDoctor, submitted once validateAdd reports no error.  The forms
\* act before the dashboard's query, which embeds the doctor's fees in the
\* appointments it fetches.
handleAddDoctor ==
    /\ pc = "idle"
    /\ \E d \in DoctorIds, values \in DoctorFormValues :
          /\ doctors[d] = Null
          /\ validateAdd(values) = {}
          /\ doctors' = [doctors EXCEPT ![d] = StoredFees(values)]
    /\ UNCHANGED << appointments, fetchVars, outsideDashboard >>

\* handleEditDoctor, submitted once validateEdit reports no error
handleEditDoctor ==
    /\ pc = "idle"
    /\ \E d \in DoctorIds, values \in DoctorFormValues :
          /\ doctors[d] # Null
          /\ validateEdit(values) = {}
          /\ doctors' = [doctors EXCEPT ![d] = StoredFees(values)]
    /\ UNCHANGED << appointments, fetchVars, outsideDashboard >>

\* completed appointments of one patient, on the evaluated day and the day
\* before
FeeRow ==
    [patient_id : {"p1"}, doctor_id : DoctorIds, appointment_date : {Today - 1, Today},
     status : {"completed"}, cost : {Some(0), Some(40)}, is_return_visit : BOOLEAN]

FeesInit ==
    /\ appointments \in [1 .. MaxAppts -> FeeRow]
    /\ doctors = [d \in DoctorIds |-> Null]
    /\ DashboardAtRest

NextFees == handleAddDoctor \/ handleEditDoctor \/ Next

SpecFees == FeesInit /\ [][NextFees]_vars

(* ------------------------ failing prior-visit lookups ------------------ *)
\* const { data: lastVisit } = await ... when the query fails and the
\* client resolves with { data: null, error }: the error is not read
LookupLastVisitErrors ==
    /\ pc = "loop"
    /\ idx <= Len(completedAppointments)
    /\ CurrentApt.is_return_visit
    /\ lastVisit' = Null
    /\ erroredLookups' = erroredLookups \cup {completedAppointments[idx]}
    /\ pc' = "add"
    /\ UNCHANGED << appointments, doctors, today, completedAppointments, idx,
                    totalRevenue, contributions, todayStats, isLoading >>
    /\ UNCHANGED outsideDashboard

\* the awaited query rejects: catch logs the error, finally setIsLoading(false)
LookupLastVisitThrows ==
    /\ pc = "loop"
    /\ idx <= Len(completedAppointments)
    /\ CurrentApt.is_return_visit
    /\ isLoading' = FALSE
    /\ pc' = "failed"
    /\ UNCHANGED << appointments, doctors, today, completedAppointments, idx,
                    lastVisit, totalRevenue, contributions, todayStats,
                    erroredLookups >>
    /\ UNCHANGED outsideDashboard

FailureInit ==
    /\ appointments \in [1 .. MaxAppts -> FeeRow]
    /\ doctors \in StatusDoctors
    /\ today = Today
    /\ pc = "idle"
    /\ completedAppointments = << >>
    /\ idx = 1
    /\ lastVisit = Null
    /\ totalRevenue = 0
    /\ contributions = << >>
    /\ todayStats = InitialStats
    /\ isLoading = TRUE
    /\ erroredLookups = {}
    /\ patients = {"p1"}
    /\ policies = {}
    /\ lastRequest = Null
    /\ OverlapIdle /\ SanitizeIdle /\ SearchIdle /\ PagesIdle

NextFailure == Next \/ LookupLastVisitErrors \/ LookupLastVisitThrows

SpecLookupFailure == FailureInit /\ [][NextFailure]_vars

(* ------------------- overlapping fetchTodayStats calls ----------------- *)
\* The mount effect and every realtime callback start a call of
\* fetchTodayStats without waiting for the one in flight; the calls
\* interleave at their awaits.  Each call has its own appointments,
\* completedAppointments, totalRevenue and lastVisit; todayStats, isLoading
\* and the tables are shared.  A row fetched by a call is a copy: later
\* changes of the table do not reach it.
InvocationIds == 1 .. MaxInvocations

\* a call that has not started
NotStarted ==
    [pc |-> "idle", fetched |-> << >>, appointmentsLength |-> 0, waitingLength |-> 0,
     idx |-> 1, lastVisit |-> Null, totalRevenue |-> 0, lookups |-> << >>]

\* the table of this specification: a completed visit of the day before and
\* two appointments of the evaluated day, every one of patient p1
OverlapTables ==
    {<< [patient_id |-> "p1", doctor_id |-> "d1", appointment_date |-> Today - 1,
         status |-> "completed", cost |-> Some(0), is_return_visit |-> FALSE],
        [patient_id |-> "p1", doctor_id |-> "d1", appointment_date |-> Today,
         status |-> st, cost |-> Some(40), is_return_visit |-> TRUE],
        [patient_id |-> "p1", doctor_id |-> "d1", appointment_date |-> Today,
         status |-> "completed", cost |-> Some(0), is_return_visit |-> f] >> :
     st \in {"scheduled", "completed"}, f \in BOOLEAN}

OverlapInit ==
    /\ appointments \in OverlapTables
    /\ doctors \in StatusDoctors
    /\ invocations = [c \in InvocationIds |-> NotStarted]
    /\ today = Today
    /\ pc = "idle"
    /\ completedAppointments = << >>
    /\ idx = 1
    /\ lastVisit = Null
    /\ totalRevenue = 0
    /\ contributions = << >>
    /\ todayStats = InitialStats
    /\ isLoading = TRUE
    /\ erroredLookups = {}
    /\ RequestsIdle /\ SanitizeIdle /\ SearchIdle /\ PagesIdle

\* what a call leaves alone besides invocations, todayStats and isLoading
overlapFrame ==
    << appointments, doctors, today, pc, completedAppointments, idx, lastVisit,
       totalRevenue, contributions, erroredLookups, requestVars, sanitizeVars,
       searchVars, pageVars >>

\* setIsLoading(true); the query of today's appointments; the two filters;
\* let totalRevenue = 0
StartFetchTodayStats(c) ==
    /\ invocations[c].pc = "idle"
    /\ isLoading' = TRUE
    /\ \E order \in Orderings(CompletedToday) :
          invocations' =
              [invocations EXCEPT ![c] =
                  [pc |-> "loop",
                   fetched |-> [k \in DOMAIN order |->
                                   [id |-> order[k], row |-> appointments[order[k]]]],
                   appointmentsLength |-> Cardinality(TodaysAppointments),
                   waitingLength |-> Cardinality(WaitingToday),
                   idx |-> 1, lastVisit |-> Null, totalRevenue |-> 0,
                   lookups |-> << >>]]
    /\ UNCHANGED << todayStats, overlapFrame >>

\* rows matched by the prior-visit query of a fetched appointment, on the
\* table as it is when the query runs
OverlapPriorVisitRows(apt) ==
    {j \in DOMAIN appointments :
        /\ appointments[j].patient_id = apt.row.patient_id
        /\ appointments[j].doctor_id = apt.row.doctor_id
        /\ appointments[j].status = "completed"
        /\ j # apt.id}

\* a return visit: await the prior-visit query
OverlapLookupLastVisit(c) ==
    LET inv == invocations[c] IN
    /\ inv.pc = "loop"
    /\ inv.idx <= Len(inv.fetched)
    /\ inv.fetched[inv.idx].row.is_return_visit
    /\ LET rows == OverlapPriorVisitRows(inv.fetched[inv.idx]) IN
         \E last \in IF rows = {} THEN {Null}
                      ELSE {Some(appointments[j].appointment_date) :
                               j \in {r \in rows : IsFirstInOrder(r, rows)}} :
            invocations' = [invocations EXCEPT ![c].lastVisit = last, ![c].pc = "add",
                                               ![c].lookups = Append(@, last)]
    /\ UNCHANGED << todayStats, isLoading, overlapFrame >>

\* totalRevenue += ... for a return visit, after its lookup
OverlapAddReturnVisit(c) ==
    LET inv == invocations[c] IN
    /\ inv.pc = "add"
    /\ invocations' =
          [invocations EXCEPT
              ![c].totalRevenue = @ + Contribution(inv.fetched[inv.idx].row, inv.lastVisit),
              ![c].idx = @ + 1, ![c].lastVisit = Null, ![c].pc = "loop"]
    /\ UNCHANGED << todayStats, isLoading, overlapFrame >>

\* variant: one totalRevenue shared by every call
OverlapAddNewVisitShared(c) ==
    LET inv == invocations[c] IN
    /\ inv.pc = "loop"
    /\ inv.idx <= Len(inv.fetched)
    /\ ~inv.fetched[inv.idx].row.is_return_visit
    /\ invocations' =
          [d \in InvocationIds |->
              IF d = c
              THEN [inv EXCEPT !.totalRevenue = @ + Contribution(inv.fetched[inv.idx].row, Null),
                               !.idx = @ + 1, !.lookups = Append(@, Null)]
              ELSE [invocations[d] EXCEPT
                       !.totalRevenue = @ + Contribution(inv.fetched[inv.idx].row, Null)]]
    /\ UNCHANGED << todayStats, isLoading, overlapFrame >>

\* totalRevenue += ... for a visit that is not a return visit
OverlapAddNewVisit(c) ==
    LET inv == invocations[c] IN
    /\ inv.pc = "loop"
    /\ inv.idx <= Len(inv.fetched)
    /\ ~inv.fetched[inv.idx].row.is_return_visit
    /\ invocations' =
          [invocations EXCEPT
              ![c].totalRevenue = @ + Contribution(inv.fetched[inv.idx].row, Null),
              ![c].idx = @ + 1, ![c].lookups = Append(@, Null)]
    /\ UNCHANGED << todayStats, isLoading, overlapFrame >>

\* setTodayStats({...}); finally setIsLoading(false)
OverlapPublishStats(c) ==
    LET inv == invocations[c] IN
    /\ inv.pc = "loop"
    /\ inv.idx > Len(inv.fetched)
    /\ todayStats' = [appointments |-> inv.appointmentsLength,
                      waiting |-> inv.waitingLength,
                      revenue |-> inv.totalRevenue,
                      completed |-> Len(inv.fetched)]
    /\ isLoading' = FALSE
    /\ invocations' = [invocations EXCEPT ![c].pc = "done"]
    /\ UNCHANGED overlapFrame

\* a member of staff completes a scheduled appointment of the evaluated day
\* while calls are in flight (the change behind a realtime callback)
AppointmentStatusChanges ==
    /\ \E i \in DOMAIN appointments :
          /\ appointments[i].appointment_date = today
          /\ appointments[i].status = "scheduled"
          /\ appointments' = [appointments EXCEPT ![i].status = "completed"]
    /\ UNCHANGED << doctors, fetchVars, outsideDashboard >>

NextOverlap ==
    \/ \E c \in InvocationIds :
          \/ StartFetchTodayStats(c)
          \/ OverlapLookupLastVisit(c)
          \/ OverlapAddReturnVisit(c)
          \/ OverlapAddNewVisit(c)
          \/ OverlapPublishStats(c)
    \/ AppointmentStatusChanges

SpecOverlap == OverlapInit /\ [][NextOverlap]_vars

(* --------------------------- row-level security ------------------------ *)
\* CREATE TYPE public.user_role AS ENUM (...)
user_role == {"admin", "doctor", "receptionist", "patient"}

\* table user_roles (UNIQUE(user_id, role)): one user for each single role,
\* one holding two roles and one holding none
Users == {"ua", "ud", "ur", "up", "udr", "u0"}
user_roles ==
    [u \in Users |->
        CASE u = "ua" -> {"admin"}
          [] u = "ud" -> {"doctor"}
          [] u = "ur" -> {"receptionist"}
          [] u = "up" -> {"patient"}
          [] u = "udr" -> {"doctor", "receptionist"}
          [] OTHER -> {}]

\* auth.uid(): Null for a request without a session
AuthUids == {Null} \cup {Some(u) : u \in Users}

\* public.has_role(_user_id, _role)
has_role(uid, role) == uid # Null /\ role \in user_roles[uid[1]]

\* public.is_admin(_user_id)
is_admin(uid) == has_role(uid, "admin")

\* public.is_staff(_user_id)
is_staff(uid) ==
    uid # Null /\ user_roles[uid[1]] \cap {"admin", "doctor", "receptionist"} # {}

\* a policy: its name, table, command and the expression of its USING /
\* WITH CHECK clause
Policy(name, table, cmd, expr) ==
    [name |-> name, table |-> table, cmd |-> cmd, expr |-> expr]

\* the policies the first migration creates on patients and appointments
InitialPolicies ==
    {Policy("Staff can view patients", "patients", "SELECT", "is_staff"),
     Policy("Staff can manage patients", "patients", "ALL", "is_staff"),
     Policy("Staff can view appointments", "appointments", "SELECT", "is_staff"),
     Policy("Staff can manage appointments", "appointments", "ALL", "is_staff")}

\* the policies the security migration creates on patients
SecurityPolicies ==
    {Policy("Staff can view patients", "patients", "SELECT", "is_staff"),
     Policy("Admin and receptionist can create patients", "patients", "INSERT",
            "admin_or_receptionist"),
     Policy("Staff can update patients", "patients", "UPDATE", "is_staff"),
     Policy("Admin can delete patients", "patients", "DELETE", "is_admin")}

\* the policy's expression evaluated for the requesting user
PolicyHolds(p, uid) ==
    CASE p.expr = "is_staff" -> is_staff(uid)
      [] p.expr = "is_admin" -> is_admin(uid)
      [] p.expr = "admin_or_receptionist" ->
            has_role(uid, "admin") \/ has_role(uid, "receptionist")

\* row-level security is enabled on both tables: a command passes when one
\* policy for it, or for ALL, holds
Permitted(table, cmd, uid) ==
    \E p \in policies : p.table = table /\ p.cmd \in {cmd, "ALL"} /\ PolicyHolds(p, uid)

\* the security migration has run
SecurityMigrationApplied ==
    \E p \in policies : p.name = "Admin can delete patients"

\* variant: the DROP POLICY statements name no existing policy
SecurityMigrationDroppingNothing ==
    /\ ~SecurityMigrationApplied
    /\ policies' = policies \cup SecurityPolicies
    /\ UNCHANGED << patients, lastRequest, appointments, doctors, fetchVars,
                    overlapVars, sanitizeVars, searchVars, pageVars >>

\* DROP POLICY IF EXISTS (twice) and CREATE POLICY (four times) on patients
SecurityMigration ==
    /\ ~SecurityMigrationApplied
    /\ policies' =
          {p \in policies :
              ~(p.table = "patients"
                  /\ p.name \in {"Staff can manage patients", "Staff can view patients"})}
          \cup SecurityPolicies
    /\ UNCHANGED << patients, lastRequest, appointments, doctors, fetchVars,
                    overlapVars, sanitizeVars, searchVars, pageVars >>

(* ------------------- requests on patients; quick booking --------------- *)
\* fetchTodayStats not started
FetchAtRest ==
    /\ today = Today
    /\ pc = "idle"
    /\ completedAppointments = << >>
    /\ idx = 1
    /\ lastVisit = Null
    /\ totalRevenue = 0
    /\ contributions = << >>
    /\ todayStats = InitialStats
    /\ isLoading = TRUE
    /\ erroredLookups = {}

\* the record kept of a request: who made it, whether it went through,
\* whether the security migration had run, the appointment it created
Request(op, table, uid, granted, path, created) ==
    Some([op |-> op, table |-> table, uid |-> uid, granted |-> granted,
          migrated |-> SecurityMigrationApplied, path |-> path, created |-> created])

\* appointments.patient_id ... REFERENCES public.patients(id) ON DELETE CASCADE
WithoutPatient(tbl, id) ==
    [i \in {j \in DOMAIN tbl : tbl[j].patient_id # id} |-> tbl[i]]

\* a select, insert, update or delete of one patients row by any client
PatientsRequest ==
    /\ \E uid \in AuthUids, cmd \in {"SELECT", "INSERT", "UPDATE", "DELETE"},
          id \in PatientIds :
          LET granted == Permitted("patients", cmd, uid) IN
          /\ (cmd = "INSERT") = (id \notin patients)
          /\ patients' = IF granted /\ cmd = "INSERT" THEN patients \cup {id}
                         ELSE IF granted /\ cmd = "DELETE" THEN patients \ {id}
                         ELSE patients
          /\ appointments' = IF granted /\ cmd = "DELETE"
                             THEN WithoutPatient(appointments, id)
                             ELSE appointments
          /\ lastRequest' = Request(cmd, "patients", uid, granted, "", Null)
    /\ UNCHANGED << policies, doctors, fetchVars, overlapVars, sanitizeVars, searchVars, pageVars >>

\* variant: the existing-patient path books with status 'waiting'
BookedAppointmentWaiting(patientId, doctorId, appointmentDate, selected) ==
    [patient_id |-> patientId, doctor_id |-> doctorId,
     appointment_date |-> appointmentDate,
     status |-> IF selected THEN "waiting" ELSE "scheduled",
     cost |-> Some(0), is_return_visit |-> FALSE]

\* the row .from('appointments').insert({...}) creates: the status it
\* sends, the column defaults for cost and is_return_visit
BookedAppointment(patientId, doctorId, appointmentDate, selected) ==
    [patient_id |-> patientId, doctor_id |-> doctorId,
     appointment_date |-> appointmentDate, status |-> "scheduled",
     cost |-> Some(0), is_return_visit |-> FALSE]

\* the id the table gives a new appointment
NewAppointmentId == CHOOSE k \in 1 .. MaxBooked : k \notin DOMAIN appointments

\* handleQuickBooking: with no selected patient insert one (and read it
\* back), then insert the appointment; an error of either insert is thrown
\* to the catch block.  A selected patient comes from searchPatient, a
\* select on patients.  The session the client holds is any.  An insert is
\* refused by the policies or fails for another reason (a value the column
\* does not take, a doctor deleted meanwhile, the connection).
handleQuickBooking ==
    /\ Cardinality(DOMAIN appointments) < MaxBooked
    /\ \E uid \in AuthUids, selectedPatient \in {Null} \cup {Some(q) : q \in patients},
          newId \in PatientIds, doctorId \in DoctorIds, appointmentDate \in {Today, MaxDay},
          failing \in {"none", "patients", "appointments"} :
          LET selected == selectedPatient # Null
              patientId == IF selected THEN selectedPatient[1] ELSE newId
              patientError ==
                  /\ ~selected
                  /\ \/ ~(Permitted("patients", "INSERT", uid)
                            /\ Permitted("patients", "SELECT", uid))
                     \/ failing = "patients"
              appointmentError ==
                  ~Permitted("appointments", "INSERT", uid) \/ failing = "appointments"
              row == BookedAppointment(patientId, doctorId, appointmentDate, selected)
              path == IF selected THEN "existing" ELSE "new"
          IN  /\ selected => Permitted("patients", "SELECT", uid)
              /\ ~selected => newId \notin patients
              /\ patients' = IF patientError THEN patients ELSE patients \cup {patientId}
              /\ IF patientError \/ appointmentError
                 THEN /\ appointments' = appointments
                      /\ lastRequest' =
                            Request("quickBooking", "appointments", uid, FALSE, path, Null)
                 ELSE /\ appointments' =
                            [i \in DOMAIN appointments \cup {NewAppointmentId} |->
                                IF i = NewAppointmentId THEN row ELSE appointments[i]]
                      /\ lastRequest' =
                            Request("quickBooking", "appointments", uid, TRUE, path,
                                    Some(NewAppointmentId))
    /\ UNCHANGED << policies, doctors, fetchVars, overlapVars, sanitizeVars, searchVars, pageVars >>

RequestsInit ==
    /\ appointments = << >>
    /\ doctors \in StatusDoctors
    /\ FetchAtRest
    /\ policies = InitialPolicies
    /\ patients = {}
    /\ lastRequest = Null
    /\ OverlapIdle /\ SanitizeIdle /\ SearchIdle /\ PagesIdle

NextRequests == SecurityMigration \/ PatientsRequest \/ handleQuickBooking

SpecRequests == RequestsInit /\ [][NextRequests]_vars

(* ------------------------ requests on appointments -------------------- *)
\* what an update of one appointment can leave in its row: another status
\* of the staff workflow or another cost
UpdatedRows(row) ==
    {[row EXCEPT !.status = st] : st \in {"scheduled", "completed", "cancelled"} \ {row.status}}
    \cup {[row EXCEPT !.cost = c] : c \in {Some(0), Some(40)} \ {row.cost}}

\* an update or delete of one appointments row by any client, under
\* "Staff can manage appointments" FOR ALL USING (is_staff(auth.uid()))
AppointmentsRequest ==
    /\ \E uid \in AuthUids, cmd \in {"UPDATE", "DELETE"}, i \in DOMAIN appointments :
          LET granted == Permitted("appointments", cmd, uid) IN
          /\ \/ /\ ~granted
                /\ appointments' = appointments
             \/ /\ granted
                /\ cmd = "UPDATE"
                /\ \E row \in UpdatedRows(appointments[i]) :
                      appointments' = [appointments EXCEPT ![i] = row]
             \/ /\ granted
                /\ cmd = "DELETE"
                /\ appointments' = [j \in DOMAIN appointments \ {i} |-> appointments[j]]
          /\ lastRequest' = Request(cmd, "appointments", uid, granted, "", Null)
    /\ UNCHANGED << policies, patients, doctors, fetchVars, overlapVars, sanitizeVars,
                    searchVars, pageVars >>

NextLifecycle == handleQuickBooking \/ AppointmentsRequest

SpecLifecycle == RequestsInit /\ [][NextLifecycle]_vars

(* -------------------------- sanitizeSearchInput ------------------------ *)
\* A string is the sequence of its characters; a JavaScript value is its
\* type and, for a string or number, its value.
BackSlash == "\\"
SearchChars == {BackSlash, "%", "_", "a"}

RECURSIVE StringsUpTo(_)
StringsUpTo(n) ==
    IF n = 0 THEN {<< >>}
    ELSE StringsUpTo(n - 1)
            \cup {Append(str, ch) : str \in StringsUpTo(n - 1), ch \in SearchChars}

JsString(str) == [type |-> "string", value |-> str]
JsNumber(n) == [type |-> "number", value |-> n]
JsUndefined == [type |-> "undefined", value |-> 0]
JsNull == [type |-> "null", value |-> 0]

\* the arguments: every string up to MaxLen, and values that are no string
SanitizeArguments ==
    {JsString(str) : str \in StringsUpTo(MaxLen)}
    \cup {JsUndefined, JsNull, JsNumber(0), JsNumber(7)}

\* !input
Not(v) ==
    \/ v.type = "undefined"
    \/ v.type = "null"
    \/ v.type = "string" /\ v.value = << >>
    \/ v.type = "number" /\ v.value = 0

\* str.replace(/ch/g, replacement)
RECURSIVE ReplaceAll(_, _, _)
ReplaceAll(str, ch, replacement) ==
    IF str = << >> THEN << >>
    ELSE (IF Head(str) = ch THEN replacement ELSE << Head(str) >>)
            \o ReplaceAll(Tail(str), ch, replacement)

\* variant: the backslashes are escaped last
sanitizeBackslashLast(input) ==
    IF Not(input) \/ input.type # "string" THEN << >>
    ELSE ReplaceAll(
            ReplaceAll(
                ReplaceAll(input.value, "%", << BackSlash, "%" >>),
                "_", << BackSlash, "_" >>),
            BackSlash, << BackSlash, BackSlash >>)

\* sanitizeSearchInput(input)
sanitizeSearchInput(input) ==
    IF Not(input) \/ input.type # "string" THEN << >>
    ELSE ReplaceAll(
            ReplaceAll(
                ReplaceAll(input.value, BackSlash, << BackSlash, BackSlash >>),
                "%", << BackSlash, "%" >>),
            "_", << BackSlash, "_" >>)

SanitizeInit ==
    /\ searchInput \in {Some(v) : v \in SanitizeArguments}
    /\ sanitizedTerm = Null
    /\ appointments = << >>
    /\ doctors = [d \in DoctorIds |-> Null]
    /\ FetchAtRest
    /\ OverlapIdle /\ RequestsIdle /\ SearchIdle /\ PagesIdle

\* const sanitizedTerm = sanitizeSearchInput(...)
CallSanitizeSearchInput ==
    /\ searchInput # Null
    /\ sanitizedTerm = Null
    /\ sanitizedTerm' = Some(sanitizeSearchInput(searchInput[1]))
    /\ UNCHANGED << searchInput, appointments, doctors, fetchVars, overlapVars,
                    requestVars, searchVars, pageVars >>

NextSanitize == CallSanitizeSearchInput

SpecSanitize == SanitizeInit /\ [][NextSanitize]_vars

(* -------------------------------- useSearch ---------------------------- *)
JsObject(fields) == [type |-> "object", value |-> fields]

\* the items of the list: a text column that can be null, a joined object
\* that can be null, a number column
SearchItems ==
    {JsObject([name |-> n, patients |-> q, years |-> y]) :
        n \in {JsString(<< "a" >>), JsString(<< "A", "b" >>), JsNull, JsUndefined},
        q \in {JsNull, JsObject([full_name |-> JsString(<< "b" >>)])},
        y \in {JsNumber(0), JsNumber(7)}}

\* lists of at most two items
SearchData ==
    {<< >>} \cup {<< x >> : x \in SearchItems} \cup {<< x, y >> : x, y \in SearchItems}

\* the terms typed into the search box
SearchTerms ==
    {<< >>, << "a" >>, << "A" >>, << "b" >>, << "0" >>, << "7" >>, << "a", "b" >>}

\* options: fields are dotted paths, split at the dots; caseSensitive and
\* minChars can be left out
SearchOptions ==
    [fields : {<< << "name" >> >>, << << "years" >> >>,
               << << "patients", "full_name" >>, << "name" >> >>},
     caseSensitive : {JsUndefined, [type |-> "boolean", value |-> 0],
                      [type |-> "boolean", value |-> 1]},
     minChars : {JsUndefined, JsNumber(0), JsNumber(2)}]

\* value[key]
Member(value, key) ==
    IF value.type = "object" /\ key \in DOMAIN value.value
    THEN value.value[key]
    ELSE JsUndefined

\* getNestedValue(obj, path), path already split into keys
RECURSIVE getNestedValue(_, _)
getNestedValue(value, keys) ==
    IF keys = << >>
    THEN IF value.type \in {"null", "undefined"} THEN JsString(<< >>) ELSE value
    ELSE IF value.type \in {"null", "undefined"} THEN JsString(<< >>)
    ELSE getNestedValue(Member(value, Head(keys)), Tail(keys))

\* truthiness of an option or value
IsTruthy(v) ==
    CASE v.type \in {"undefined", "null"} -> FALSE
      [] v.type = "string" -> v.value # << >>
      [] v.type \in {"number", "boolean"} -> v.value # 0
      [] OTHER -> TRUE

\* String(v) for a string or one of the numbers of the items
String(v) ==
    CASE v.type = "string" -> v.value
      [] v.type = "number" -> IF v.value = 0 THEN << "0" >> ELSE << "7" >>

\* str.toLowerCase()
toLowerCase(str) == [k \in DOMAIN str |-> IF str[k] = "A" THEN "a" ELSE str[k]]

\* str.includes(term)
includes(str, term) ==
    \E k \in 0 .. (Len(str) - Len(term)) : SubSeq(str, k + 1, k + Len(term)) = term

\* options.fields.some(field => ...) for one item
SomeFieldIncludes(item, opts, term) ==
    \E k \in DOMAIN opts.fields :
        LET nested == getNestedValue(item, opts.fields[k])
            value == String(IF IsTruthy(nested) THEN nested ELSE JsString(<< >>))
            fieldValue == IF IsTruthy(opts.caseSensitive) THEN value ELSE toLowerCase(value)
        IN  includes(fieldValue, term)

\* the useMemo callback
FilteredData(list, opts, typed) ==
    IF typed = << >>
          \/ Len(typed) < (IF IsTruthy(opts.minChars) THEN opts.minChars.value ELSE 0)
    THEN list
    ELSE LET term == IF IsTruthy(opts.caseSensitive) THEN typed ELSE toLowerCase(typed)
             Keep(item) == SomeFieldIncludes(item, opts, term)
         IN  SelectSeq(list, Keep)

\* the hook's first render: useState(''), the memo computed once
SearchInit ==
    /\ data \in SearchData
    /\ options \in {Some(o) : o \in SearchOptions}
    /\ searchTerm = << >>
    /\ filteredData = data
    /\ appointments = << >>
    /\ doctors = [d \in DoctorIds |-> Null]
    /\ FetchAtRest
    /\ OverlapIdle /\ RequestsIdle /\ SanitizeIdle /\ PagesIdle

\* setSearchTerm(typed) and the render that follows
setSearchTerm ==
    /\ options # Null
    /\ \E typed \in SearchTerms :
          /\ typed # searchTerm
          /\ searchTerm' = typed
          /\ filteredData' = FilteredData(data, options[1], typed)
    /\ UNCHANGED << data, options, appointments, doctors, fetchVars, overlapVars,
                    requestVars, sanitizeVars, pageVars >>

NextSearch == setSearchTerm

SpecSearch == SearchInit /\ [][NextSearch]_vars

(* ---------------- the prior-visit lookup on a mixed table -------------- *)
ReferenceDoctorIds == {"d1", "d2"}

\* rows of either patient and either doctor, on any day, completed or not
ReferenceRow ==
    [patient_id : PatientIds, doctor_id : ReferenceDoctorIds, appointment_date : Days,
     status : {"completed", "scheduled", "cancelled"}, cost : {Some(0)},
     is_return_visit : BOOLEAN]

\* a completed return visit of the evaluated day and two more rows
ReferenceTables ==
    {<< [patient_id |-> "p1", doctor_id |-> "d1", appointment_date |-> Today,
         status |-> "completed", cost |-> Some(0), is_return_visit |-> TRUE],
        a, b >> : a, b \in ReferenceRow}

ReferenceInit ==
    /\ appointments \in ReferenceTables
    /\ doctors = [d \in ReferenceDoctorIds |->
                    Some([consultation_fee |-> Some(50),
                          return_consultation_fee |-> Some(30),
                          free_return_days |-> Some(1)])]
    /\ DashboardAtRest

SpecReference == ReferenceInit /\ [][Next]_vars

(* ----------------------------- ProtectedRoute -------------------------- *)
\* the values useAuth() can hand to the component: a user or none, a role
\* or none, loading or not
AuthValues ==
    [user : {Null, Some("u1")},
     userRole : {Null} \cup {Some(r) : r \in user_role},
     loading : BOOLEAN]

\* the props: requireAuth left out, true or false; allowedRoles left out or
\* a list of roles
RouteProps ==
    [requireAuth : {Null, Some(TRUE), Some(FALSE)},
     allowedRoles : {Null, Some({}), Some({"admin"}),
                     Some({"admin", "doctor", "receptionist"})}]

\* requireAuth = true in the parameter list
RequireAuth(props) == IF props.requireAuth = Null THEN TRUE ELSE props.requireAuth[1]

\* allowedRoles && userRole && !allowedRoles.includes(userRole)
RoleRefused(a, props) ==
    /\ props.allowedRoles # Null
    /\ a.userRole # Null
    /\ a.userRole[1] \notin props.allowedRoles[1]

\* variant: the component without its requireAuth && !user branch
ProtectedRouteAdmittingVisitors(a, props) ==
    IF a.loading THEN "spinner"
    ELSE IF RoleRefused(a, props) THEN "null"
    ELSE "children"

\* what the component returns
ProtectedRoute(a, props) ==
    IF a.loading THEN "spinner"
    ELSE IF RequireAuth(props) /\ a.user = Null THEN "null"
    ELSE IF RoleRefused(a, props) THEN "null"
    ELSE "children"

\* the navigate() call of the effect, if it makes one
RouteEffect(a, props) ==
    IF a.loading THEN Null
    ELSE IF RequireAuth(props) /\ a.user = Null THEN Some("/auth")
    ELSE IF RoleRefused(a, props) THEN Some("/")
    ELSE Null

\* the component is mounted: first render and first run of the effect
RouteInit ==
    /\ \E a \in AuthValues, props \in RouteProps :
          /\ auth = Some(a)
          /\ routeProps = Some(props)
          /\ rendered = Some(ProtectedRoute(a, props))
          /\ navigated = RouteEffect(a, props)
    /\ appointments = << >>
    /\ doctors = [d \in DoctorIds |-> Null]
    /\ FetchAtRest
    /\ BesidesRouteIdle

\* useAuth() hands over a new value: the component renders again and its
\* effect, which depends on user, userRole and loading, runs again
AuthChanges ==
    /\ auth # Null
    /\ \E a \in AuthValues :
          /\ Some(a) # auth
          /\ auth' = Some(a)
          /\ rendered' = Some(ProtectedRoute(a, routeProps[1]))
          /\ navigated' = RouteEffect(a, routeProps[1])
    /\ UNCHANGED << routeProps, appointments, doctors, fetchVars, besidesRoute >>

NextRoute == AuthChanges

SpecRoute == RouteInit /\ [][NextRoute]_vars

(* ------------------------------ role changes --------------------------- *)
\* The table user_roles has a generated primary key id and UNIQUE(user_id,
\* role): its rows are told apart by their (user_id, role) pair.  The
\* handlers run in the session of an administrator ("Admins can manage
\* roles" FOR ALL) and change the role of another user.
RoleUsers == {"u1"}

RoleRow(u, r) == [user_id |-> u, role |-> r]

\* the rows of a user in a table of roles
RoleRowsOf(tbl, u) == {row \in tbl : row.user_id = u}

\* .upsert({user_id, role}) without onConflict: INSERT ... ON CONFLICT (id)
\* DO UPDATE; the payload has no id, the row gets a generated one, so the
\* statement inserts, and fails when the pair is there already
UpsertFails(u, r) == RoleRow(u, r) \in roleRows
Upserted(u, r) == roleRows \cup {RoleRow(u, r)}

\* .update({role}).eq('user_id', u): every row of the user gets the role;
\* two rows of one user would then be equal pairs, which UNIQUE refuses
UpdateFails(u) == Cardinality(RoleRowsOf(roleRows, u)) > 1
Updated(u, r) ==
    {row \in roleRows : row.user_id # u}
        \cup {RoleRow(u, r) : row \in RoleRowsOf(roleRows, u)}

\* fetchUsers: rolesData.find(r => r.user_id === profile.user_id)?.role
\* || 'patient', the rows coming in no stated order
UsersLists(tbl) ==
    {f \in [RoleUsers -> user_role] :
        \A u \in RoleUsers :
            IF RoleRowsOf(tbl, u) = {} THEN f[u] = "patient"
            ELSE \E row \in RoleRowsOf(tbl, u) : f[u] = row.role}

RoleChange(handler, u, r, ok) ==
    Some([handler |-> handler, user_id |-> u, role |-> r, ok |-> ok])

\* the user with the one row the signup trigger gave it, the role possibly
\* changed since; both pages showing the table
RolesInit ==
    /\ \E f \in [RoleUsers -> user_role] :
          /\ roleRows = {RoleRow(u, f[u]) : u \in RoleUsers}
          /\ shownRoles = Some(f)
          /\ doctorUsers = {u \in RoleUsers : f[u] = "doctor"}
    /\ listedRoles = roleRows
    /\ lastRoleChange = Null
    /\ appointments = << >>
    /\ doctors = [d \in DoctorIds |-> Null]
    /\ FetchAtRest
    /\ BesidesRoleIdle

roleFrame == << appointments, doctors, fetchVars, besidesRole >>

\* Users page, the role select of a row
updateUserRole ==
    /\ shownRoles # Null
    /\ \E u \in RoleUsers, newRole \in user_role :
          IF UpsertFails(u, newRole)
          THEN /\ lastRoleChange' = RoleChange("updateUserRole", u, newRole, FALSE)
               /\ UNCHANGED << roleRows, doctorUsers, shownRoles >>
          ELSE /\ roleRows' = Upserted(u, newRole)
               /\ doctorUsers' = IF newRole = "doctor" THEN doctorUsers \cup {u}
                                 ELSE doctorUsers
               /\ \E f \in UsersLists(Upserted(u, newRole)) : shownRoles' = Some(f)
               /\ lastRoleChange' = RoleChange("updateUserRole", u, newRole, TRUE)
    /\ UNCHANGED << listedRoles, roleFrame >>

\* Users page, the edit dialog: the profile update, then the role
handleEditUser ==
    /\ shownRoles # Null
    /\ \E u \in RoleUsers, role \in user_role :
          \/ /\ lastRoleChange' = RoleChange("handleEditUser", u, role, FALSE)
             /\ UNCHANGED << roleRows, shownRoles >>
          \/ /\ ~UpsertFails(u, role)
             /\ roleRows' = Upserted(u, role)
             /\ \E f \in UsersLists(Upserted(u, role)) : shownRoles' = Some(f)
             /\ lastRoleChange' = RoleChange("handleEditUser", u, role, TRUE)
    /\ UNCHANGED << doctorUsers, listedRoles, roleFrame >>

\* Settings page, the role select of a row
handleUpdateRole ==
    /\ shownRoles # Null
    /\ \E u \in RoleUsers, newRole \in user_role :
          IF UpdateFails(u)
          THEN /\ lastRoleChange' = RoleChange("handleUpdateRole", u, newRole, FALSE)
               /\ UNCHANGED << roleRows, listedRoles >>
          ELSE /\ roleRows' = Updated(u, newRole)
               /\ listedRoles' = Updated(u, newRole)
               /\ lastRoleChange' = RoleChange("handleUpdateRole", u, newRole, TRUE)
    /\ UNCHANGED << doctorUsers, shownRoles, roleFrame >>

NextRoles == updateUserRole \/ handleEditUser \/ handleUpdateRole

SpecRoles == RolesInit /\ [][NextRoles]_vars

(* ------------------------ the edit-doctor dialog ----------------------- *)
\* free_return_days: ... || 7
DefaultFreeReturnDays == 7

\* the fee columns of a doctor the forms or the column defaults have
\* written: fees 0 or more, a window of 0 or more days or the default
EditableDoctorRow ==
    [consultation_fee : {Some(0), Some(50)},
     return_consultation_fee : {Some(0), Some(30)},
     free_return_days : {Some(n) : n \in 0 .. MaxFreeDays} \cup {Some(DefaultFreeReturnDays)}]

\* initialEditValues for the selected doctor (the fields validateEdit
\* reads, and the fees)
initialEditValues(doc) ==
    [doctor_name |-> "Dr", specialization |-> "ENT",
     consultation_fee |-> OrElse(doc.consultation_fee, Some(0))[1],
     return_consultation_fee |-> OrElse(doc.return_consultation_fee, Some(0))[1],
     free_return_days |-> OrElse(doc.free_return_days, Some(DefaultFreeReturnDays))[1]]

\* what the editor can put into a field of the form
FieldInputs(field) ==
    CASE field = "doctor_name" -> {"", "Dr"}
      [] field = "specialization" -> {"", "ENT"}
      [] field = "consultation_fee" -> FormFees
      [] field = "return_consultation_fee" -> FormReturnFees
      [] field = "free_return_days" -> FormFreeDays

EditFormFields ==
    {"doctor_name", "specialization", "consultation_fee", "return_consultation_fee",
     "free_return_days"}

DoctorEditInit ==
    /\ doctors \in [DoctorIds -> {Some(d) : d \in EditableDoctorRow}]
    /\ appointments = << >>
    /\ FetchAtRest
    /\ selectedDoctor = Null
    /\ editValues = Null
    /\ touched = {}
    /\ BesidesDoctorFormIdle

doctorFormFrame == << appointments, fetchVars, besidesDoctorForm >>

\* the edit button of a doctor: setSelectedDoctor(doctor), then the effect
\* editForm.setValues(initialEditValues)
openEditDialog ==
    /\ selectedDoctor = Null
    /\ \E d \in DoctorIds :
          /\ doctors[d] # Null
          /\ selectedDoctor' = Some(d)
          /\ editValues' = Some(initialEditValues(doctors[d][1]))
    /\ touched' = {}
    /\ UNCHANGED << doctors, doctorFormFrame >>

\* the editor changes one field of the form
changeEditField ==
    /\ selectedDoctor # Null
    /\ \E field \in EditFormFields :
          \E v \in FieldInputs(field) \ {editValues[1][field]} :
              /\ editValues' = Some([editValues[1] EXCEPT ![field] = v])
              /\ touched' = touched \cup {field}
    /\ UNCHANGED << doctors, selectedDoctor, doctorFormFrame >>

\* the form is submitted: validateEdit, then handleEditDoctor(values), whose
\* update writes the values of the form and closes the dialog (a failed
\* update shows a message and changes nothing)
submitEditForm ==
    /\ selectedDoctor # Null
    /\ validateEdit(editValues[1]) = {}
    /\ doctors' = [doctors EXCEPT ![selectedDoctor[1]] = StoredFees(editValues[1])]
    /\ selectedDoctor' = Null
    /\ editValues' = Null
    /\ touched' = {}
    /\ UNCHANGED doctorFormFrame

NextDoctorEdit == openEditDialog \/ changeEditField \/ submitEditForm

SpecDoctorEdit == DoctorEditInit /\ [][NextDoctorEdit]_vars

(* ------------------- the patient search of quick booking --------------- *)
\* the changes of the search box one behaviour holds
MaxKeystrokes == 3

\* the rows of patients the search reads: full_name and phone
SearchedPatients ==
    {[full_name |-> << "A", "b" >>, phone |-> << "7", "7" >>],
     [full_name |-> << "b", "b" >>, phone |-> << "7", "8" >>]}

\* the values the search box can take
SearchBoxTerms ==
    {<< >>, << "a" >>, << "a", "b" >>, << "b", "b" >>, << "7", "7" >>, << " ", " " >>}

\* str.trim()
RECURSIVE TrimStart(_)
TrimStart(str) ==
    IF str # << >> /\ Head(str) = " " THEN TrimStart(Tail(str)) ELSE str

RECURSIVE TrimEnd(_)
TrimEnd(str) ==
    IF str # << >> /\ str[Len(str)] = " " THEN TrimEnd(SubSeq(str, 1, Len(str) - 1))
    ELSE str

Trim(str) == TrimEnd(TrimStart(str))

\* the text an escaped LIKE pattern stands for: a backslash makes the
\* character after it literal
RECURSIVE LikeLiteral(_)
LikeLiteral(pattern) ==
    IF pattern = << >> THEN << >>
    ELSE IF Head(pattern) = BackSlash /\ Len(pattern) > 1
         THEN << pattern[2] >> \o LikeLiteral(Tail(Tail(pattern)))
         ELSE << Head(pattern) >> \o LikeLiteral(Tail(pattern))

\* column ILIKE '%' || pattern || '%'
Ilike(column, pattern) ==
    includes(toLowerCase(column), toLowerCase(LikeLiteral(pattern)))

\* .or(`full_name.ilike.%${sanitizedTerm}%,phone.ilike.%${sanitizedTerm}%`)
\* on the two rows (fewer than the limit of 5)
PatientsMatching(pattern) ==
    {p \in SearchedPatients : Ilike(p.full_name, pattern) \/ Ilike(p.phone, pattern)}

PatientSearchInit ==
    /\ searches = << >>
    /\ searchResults = {}
    /\ isSearching = FALSE
    /\ appointments = << >>
    /\ doctors = [d \in DoctorIds |-> Null]
    /\ FetchAtRest
    /\ BesidesPatientSearchIdle

patientSearchFrame == << appointments, doctors, fetchVars, besidesPatientSearch >>

\* onChange of the search box: searchPatient(e.target.value) up to its
\* await; a term shorter than 2 characters empties the list and sends
\* nothing
searchPatient ==
    /\ Len(searches) < MaxKeystrokes
    /\ \E term \in SearchBoxTerms :
          /\ searches # << >> => searches[Len(searches)].term # term
          /\ IF term = << >> \/ Len(term) < 2
             THEN /\ searchResults' = {}
                  /\ searches' = Append(searches, [term |-> term, pattern |-> Null,
                                                   state |-> "returned"])
                  /\ UNCHANGED isSearching
             ELSE /\ isSearching' = TRUE
                  /\ searches' =
                        Append(searches,
                               [term |-> term,
                                pattern |-> Some(sanitizeSearchInput(JsString(Trim(term)))),
                                state |-> "pending"])
                  /\ UNCHANGED searchResults
    /\ UNCHANGED patientSearchFrame

\* the query of one call answers: setSearchResults(data || []); finally
\* setIsSearching(false)
searchPatientAnswered ==
    /\ \E n \in DOMAIN searches :
          /\ searches[n].state = "pending"
          /\ searchResults' = PatientsMatching(searches[n].pattern[1])
          /\ searches' = [searches EXCEPT ![n].state = "answered"]
    /\ isSearching' = FALSE
    /\ UNCHANGED patientSearchFrame

\* the query of one call fails: console.error; finally setIsSearching(false)
searchPatientFailed ==
    /\ \E n \in DOMAIN searches :
          /\ searches[n].state = "pending"
          /\ searches' = [searches EXCEPT ![n].state = "failed"]
    /\ isSearching' = FALSE
    /\ UNCHANGED << searchResults, patientSearchFrame >>

NextPatientSearch == searchPatient \/ searchPatientAnswered \/ searchPatientFailed

SpecPatientSearch == PatientSearchInit /\ [][NextPatientSearch]_vars

(* ---------------------- fetchSettings and its default row -------------- *)
\* The table center_settings has a generated primary key and no other
\* constraint; "Everyone can view center settings" lets every session
\* select, "Admins can manage center settings" lets administrators insert.
\* fetchSettings runs at the mount of the Settings page, again when isAdmin
\* changes and after a save, in every open session; the calls interleave
\* at their awaits.
SettingsCallIds == 1 .. MaxInvocations + 1

\* the row the migration inserts
MigrationRow == 0

\* a call: the session it runs in and where it is
SettingsCall(isAdmin, at) == [isAdmin |-> isAdmin, pc |-> at]

\* the table as the migration leaves it, or emptied since (the case the
\* else branch of fetchSettings is written for)
SettingsInit ==
    /\ centerSettings \in {{MigrationRow}, {}}
    /\ settingsCalls \in [SettingsCallIds -> {SettingsCall(a, "idle") : a \in BOOLEAN}]
    /\ appointments = << >>
    /\ doctors = [d \in DoctorIds |-> Null]
    /\ FetchAtRest
    /\ BesidesSettingsIdle

settingsFrame == << appointments, doctors, fetchVars, besidesSettings >>

\* .from('center_settings').select('*').maybeSingle(): the row, null when
\* there is none, an error when there are several
fetchSettings(c) ==
    /\ settingsCalls[c].pc = "idle"
    /\ settingsCalls' =
          [settingsCalls EXCEPT ![c].pc =
              IF centerSettings = {} THEN "insert"
              ELSE IF Cardinality(centerSettings) = 1 THEN "done"
              ELSE "failed"]
    /\ UNCHANGED << centerSettings, settingsFrame >>

\* data was null: .insert([defaultSettings]).select().single(), refused
\* unless the session is an administrator's
InsertDefaultSettings(c) ==
    /\ settingsCalls[c].pc = "insert"
    /\ IF settingsCalls[c].isAdmin
       THEN /\ centerSettings' = centerSettings \cup {c}
            /\ settingsCalls' = [settingsCalls EXCEPT ![c].pc = "done"]
       ELSE /\ centerSettings' = centerSettings
            /\ settingsCalls' = [settingsCalls EXCEPT ![c].pc = "failed"]
    /\ UNCHANGED settingsFrame

NextSettings ==
    \E c \in SettingsCallIds : fetchSettings(c) \/ InsertDefaultSettings(c)

SpecSettings == SettingsInit /\ [][NextSettings]_vars

(* ------------------- vocabulary of the claims below -------------------- *)
\* The k-th appointment the loop has totalled, and its table id.
TotalledId(k) == completedAppointments[k]
Totalled(k) == appointments[TotalledId(k)]
TotalledPositions == 1 .. Len(contributions)

\* A fee column of the appointment's doctor; Null when the column is unset
\* or the doctor has no record.
PolicyOf(apt, column) ==
    IF doctors[apt.doctor_id] = Null THEN Null ELSE doctors[apt.doctor_id][1][column]

\* The other completed appointments of the same patient and doctor.
OtherCompleted(i) ==
    {j \in DOMAIN appointments \ {i} :
        /\ appointments[j].patient_id = appointments[i].patient_id
        /\ appointments[j].doctor_id = appointments[i].doctor_id
        /\ appointments[j].status = "completed"}

\* The date of the most recent of them.
MostRecentOtherDate(i) ==
    CHOOSE d \in {appointments[j].appointment_date : j \in OtherCompleted(i)} :
        \A j \in OtherCompleted(i) : appointments[j].appointment_date <= d

\* cost ?? return_consultation_fee ?? consultation_fee ?? 0 : a column is
\* skipped only when it is unset.
PresentReturnCascade(apt) ==
    IF apt.cost # Null THEN apt.cost[1]
    ELSE IF PolicyOf(apt, "return_consultation_fee") # Null
         THEN PolicyOf(apt, "return_consultation_fee")[1]
    ELSE IF PolicyOf(apt, "consultation_fee") # Null
         THEN PolicyOf(apt, "consultation_fee")[1]
    ELSE 0

\* cost ?? consultation_fee ?? 0
PresentNewCascade(apt) ==
    IF apt.cost # Null THEN apt.cost[1]
    ELSE IF PolicyOf(apt, "consultation_fee") # Null
         THEN PolicyOf(apt, "consultation_fee")[1]
    ELSE 0

\* An amount that is set to a non-zero value.
NonZero(x) == x # Null /\ x[1] # 0

\* The paid cascade that is non-zero whenever one of its amounts is: the
\* first of cost, return_consultation_fee, consultation_fee set to a
\* non-zero value, else 0.
PaidCascade(apt) ==
    IF NonZero(apt.cost) THEN apt.cost[1]
    ELSE IF NonZero(PolicyOf(apt, "return_consultation_fee"))
         THEN PolicyOf(apt, "return_consultation_fee")[1]
    ELSE IF NonZero(PolicyOf(apt, "consultation_fee"))
         THEN PolicyOf(apt, "consultation_fee")[1]
    ELSE 0

AnyAmountNonZero(apt) ==
    \/ NonZero(apt.cost)
    \/ NonZero(PolicyOf(apt, "return_consultation_fee"))
    \/ NonZero(PolicyOf(apt, "consultation_fee"))

(* ------------------------------- claims -------------------------------- *)

\* C1 (as stated): a completed appointment that is not a return visit
\* contributes its cost whenever a cost is present (0 included), else the
\* doctor's consultation_fee when present, else 0, whatever other
\* appointments exist.
C1_NewVisitUsesPresentCost ==
    \A k \in TotalledPositions :
        ~Totalled(k).is_return_visit
            => contributions[k] = PresentNewCascade(Totalled(k))

\* C1 (amended): a completed appointment that is not a return visit
\* contributes its cost when the cost is set to a non-zero value, else the
\* doctor's consultation_fee when that is set to a non-zero value, else 0,
\* whatever other appointments exist.
C1_NewVisitUsesNonZeroCost ==
    \A k \in TotalledPositions :
        LET apt == Totalled(k) IN
            ~apt.is_return_visit
                => contributions[k] =
                      IF NonZero(apt.cost) THEN apt.cost[1]
                      ELSE IF NonZero(PolicyOf(apt, "consultation_fee"))
                           THEN PolicyOf(apt, "consultation_fee")[1]
                      ELSE 0

\* C1 witness: a new visit with the default cost 0 has been totalled at the
\* consultation fee 50, its doctor's return fee being 30 and another
\* completed visit of the same patient and doctor being in the table.
C1_Witness ==
    \E k \in TotalledPositions :
        /\ ~Totalled(k).is_return_visit
        /\ Totalled(k).cost = Some(0)
        /\ PolicyOf(Totalled(k), "return_consultation_fee") = Some(30)
        /\ OtherCompleted(TotalledId(k)) # {}
        /\ contributions[k] = 50

\* C2 (as stated): a return visit whose most recent other completed visit
\* (same patient and doctor) is dated exactly free_return_days = N days
\* before it contributes 0, for every N >= 0, N = 0 included.
C2_BoundaryInclusiveForEveryN ==
    \A k \in TotalledPositions :
        LET apt == Totalled(k)
            n == PolicyOf(apt, "free_return_days")
        IN  ( /\ apt.is_return_visit
              /\ n # Null
              /\ OtherCompleted(TotalledId(k)) # {}
              /\ apt.appointment_date - MostRecentOtherDate(TotalledId(k)) = n[1] )
            => contributions[k] = 0

\* C2 (amended): the same for every N >= 1; the boundary is inclusive.
C2_BoundaryInclusive ==
    \A k \in TotalledPositions :
        LET apt == Totalled(k)
            n == PolicyOf(apt, "free_return_days")
        IN  ( /\ apt.is_return_visit
              /\ n # Null
              /\ n[1] >= 1
              /\ OtherCompleted(TotalledId(k)) # {}
              /\ apt.appointment_date - MostRecentOtherDate(TotalledId(k)) = n[1] )
            => contributions[k] = 0

\* C2 witness: a return visit costing 40, one day after the most recent other
\* completed visit and with a one-day window, has been totalled at 0.
C2_Witness ==
    \E k \in TotalledPositions :
        /\ Totalled(k).is_return_visit
        /\ Totalled(k).cost = Some(40)
        /\ PolicyOf(Totalled(k), "free_return_days") = Some(1)
        /\ OtherCompleted(TotalledId(k)) # {}
        /\ Totalled(k).appointment_date - MostRecentOtherDate(TotalledId(k)) = 1
        /\ contributions[k] = 0

C5_FreeIffEarlierVisitInWindow ==
    \A k \in TotalledPositions :
        LET apt == Totalled(k)
            n == PolicyOf(apt, "free_return_days")
            earlierInWindow ==
                /\ n # Null
                /\ \E j \in OtherCompleted(TotalledId(k)) :
                      /\ appointments[j].appointment_date < apt.appointment_date
                      /\ apt.appointment_date - appointments[j].appointment_date <= n[1]
        IN  apt.is_return_visit
                => contributions[k] = IF earlierInWindow THEN 0 ELSE PaidCascade(apt)

\* C6: a completed appointment dated on the same day as the return visit, or
\* later, never makes it free: without a strictly earlier completed visit
\* the return visit contributes the paid cascade.
C6_OnlyEarlierVisitsMakeFree ==
    \A k \in TotalledPositions :
        LET apt == Totalled(k) IN
            ( /\ apt.is_return_visit
              /\ \A j \in OtherCompleted(TotalledId(k)) :
                    appointments[j].appointment_date >= apt.appointment_date )
                => contributions[k] = PaidCascade(apt)

Billed(k) ==
    LET apt == Totalled(k)
        n == PolicyOf(apt, "free_return_days")
    IN  /\ apt.is_return_visit
        /\ \/ OtherCompleted(TotalledId(k)) = {}
           \/ ~NonZero(n)
           \/ apt.appointment_date - MostRecentOtherDate(TotalledId(k)) > n[1]

C10_MissingDoctorContributesZero ==
    /\ \A k \in TotalledPositions :
          (doctors[Totalled(k).doctor_id] = Null /\ Totalled(k).cost \in {Null, Some(0)})
              => contributions[k] = 0
    /\ pc = "done" =>
          /\ Len(contributions) = Len(completedAppointments)
          /\ \A i \in DOMAIN appointments :
                (appointments[i].appointment_date = today
                    /\ appointments[i].status = "completed")
                    => \E k \in TotalledPositions : TotalledId(k) = i

\* C10 witness: the statistics are published after a return visit and a new
\* visit of a doctor without record, one without cost and one costing 40.
C10_Witness ==
    /\ pc = "done"
    /\ \A d \in DOMAIN doctors : doctors[d] = Null
    /\ \E k, m \in TotalledPositions :
          /\ Totalled(k).is_return_visit
          /\ Totalled(k).cost = Null
          /\ contributions[k] = 0
          /\ ~Totalled(m).is_return_visit
          /\ contributions[m] = 40
    /\ todayStats.revenue = 40

\* The result the prior-visit lookup of appointment i has on the table.
ReferenceVisit(i) ==
    IF OtherCompleted(i) = {} THEN Null ELSE Some(MostRecentOtherDate(i))

\* The sum, over a set of appointments, of each one's contribution.
RECURSIVE SumOfContributions(_)
SumOfContributions(ids) ==
    IF ids = {} THEN 0
    ELSE LET i == CHOOSE x \in ids : TRUE
         IN  Contribution(appointments[i], ReferenceVisit(i))
                + SumOfContributions(ids \ {i})

RECURSIVE SumSeq(_)
SumSeq(seq) == IF seq = << >> THEN 0 ELSE Head(seq) + SumSeq(Tail(seq))

CompletedOfTheDay ==
    {i \in DOMAIN appointments :
        appointments[i].appointment_date = today /\ appointments[i].status = "completed"}

\* The three appointments of the example, for the worked example's doctor
\* (free_return_days 7): a new visit costing 100, a return visit whose most
\* recent other completed visit lies inside the window, and a return visit
\* costing 40 whose most recent other completed visit lies outside it.
ThreeVisitExample ==
    \E a, b, c \in DOMAIN appointments :
        /\ CompletedOfTheDay = {a, b, c}
        /\ Cardinality({a, b, c}) = 3
        /\ \A i \in {a, b, c} : PolicyOf(appointments[i], "free_return_days") = Some(7)
        /\ ~appointments[a].is_return_visit
        /\ appointments[a].cost = Some(100)
        /\ appointments[b].is_return_visit
        /\ OtherCompleted(b) # {}
        /\ today - MostRecentOtherDate(b) \in 0 .. 7
        /\ appointments[c].is_return_visit
        /\ appointments[c].cost = Some(40)
        /\ OtherCompleted(c) # {}
        /\ today - MostRecentOtherDate(c) > 7

\* C8: the published revenue is the sum of the per-appointment
\* contributions, whatever the order of the fetched list; the three-visit
\* example totals 140 in every order.
C8_TotalIsOrderIndependent ==
    pc = "done" =>
        /\ todayStats.revenue = SumSeq(contributions)
        /\ todayStats.revenue = SumOfContributions(CompletedOfTheDay)
        /\ ThreeVisitExample => todayStats.revenue = 140

\* C8 witness: the example has been totalled to 140 with the return visits
\* first and the new visit last.
C8_Witness ==
    /\ pc = "done"
    /\ ThreeVisitExample
    /\ Len(completedAppointments) = 3
    /\ appointments[completedAppointments[1]].cost = Some(40)
    /\ appointments[completedAppointments[2]].cost = Null
    /\ appointments[completedAppointments[3]].cost = Some(100)
    /\ contributions = << 40, 0, 100 >>
    /\ todayStats.revenue = 140

\* C9: doctor with consultation_fee 50, return_consultation_fee 30 and
\* free_return_days 7, prior completed visit on day 0: a return visit
\* without recorded cost contributes 0 on day 7 and 30 on day 8, and 50 on
\* day 8 when return_consultation_fee is unset.
C9_WorkedExample ==
    \A k \in TotalledPositions :
        LET apt == Totalled(k)
            returnFee == PolicyOf(apt, "return_consultation_fee")
        IN  ( /\ apt.is_return_visit
              /\ apt.cost = Null
              /\ PolicyOf(apt, "consultation_fee") = Some(50)
              /\ PolicyOf(apt, "free_return_days") = Some(7)
              /\ OtherCompleted(TotalledId(k)) # {}
              /\ MostRecentOtherDate(TotalledId(k)) = 0 )
            => /\ (apt.appointment_date = 7 /\ returnFee \in {Some(30), Null})
                    => contributions[k] = 0
               /\ (apt.appointment_date = 8 /\ returnFee = Some(30))
                    => contributions[k] = 30
               /\ (apt.appointment_date = 8 /\ returnFee = Null)
                    => contributions[k] = 50

\* C9 witness: the day-8 return visit of the example has been totalled at
\* the consultation fee 50, the return fee being unset.
C9_Witness ==
    \E k \in TotalledPositions :
        /\ Totalled(k).is_return_visit
        /\ Totalled(k).cost = Null
        /\ Totalled(k).appointment_date = 8
        /\ PolicyOf(Totalled(k), "return_consultation_fee") = Null
        /\ PolicyOf(Totalled(k), "free_return_days") = Some(7)
        /\ OtherCompleted(TotalledId(k)) # {}
        /\ MostRecentOtherDate(TotalledId(k)) = 0
        /\ contributions[k] = 50

\* The revenue of the evaluated day computed on a table tbl: the sum, over
\* its completed rows of that day, of each one's contribution given the
\* most recent other completed row of the same patient and doctor.
ReferenceVisitIn(tbl, i) ==
    LET others == {j \in DOMAIN tbl \ {i} :
                      /\ tbl[j].patient_id = tbl[i].patient_id
                      /\ tbl[j].doctor_id = tbl[i].doctor_id
                      /\ tbl[j].status = "completed"}
    IN  IF others = {} THEN Null
        ELSE Some(CHOOSE d \in {tbl[j].appointment_date : j \in others} :
                     \A j \in others : tbl[j].appointment_date <= d)

RECURSIVE RevenueSum(_, _)
RevenueSum(tbl, ids) ==
    IF ids = {} THEN 0
    ELSE LET i == CHOOSE x \in ids : TRUE
         IN  Contribution(tbl[i], ReferenceVisitIn(tbl, i)) + RevenueSum(tbl, ids \ {i})

RevenueOfDay(tbl, day) ==
    RevenueSum(tbl, {i \in DOMAIN tbl :
                        tbl[i].appointment_date = day /\ tbl[i].status = "completed"})

\* C11: only the completed appointments of the evaluated day contribute to
\* the revenue total: every totalled appointment is a completed one of that
\* day, and the published total is the same whatever cost and
\* is_return_visit flag a scheduled, waiting, return or cancelled
\* appointment carries.
C11_OnlyCompletedContribute ==
    /\ \A k \in TotalledPositions :
          Totalled(k).status = "completed" /\ Totalled(k).appointment_date = today
    /\ pc = "done" =>
          /\ Len(contributions) = Cardinality(CompletedOfTheDay)
          /\ todayStats.revenue = RevenueOfDay(appointments, today)
          /\ \A i \in DOMAIN appointments :
                appointments[i].status # "completed" =>
                    \A c \in {Null, Some(0), Some(40), Some(100)}, f \in BOOLEAN :
                        todayStats.revenue =
                            RevenueOfDay([appointments EXCEPT ![i].cost = c,
                                                             ![i].is_return_visit = f],
                                         today)

\* C11 witness: the statistics are published with revenue 40 from the one
\* completed appointment of the day, the day's other appointment being of
\* status 'return', flagged as a return visit and costing 40.
C11_Witness ==
    /\ pc = "done"
    /\ todayStats.revenue = 40
    /\ Cardinality(CompletedOfTheDay) = 1
    /\ \E i \in DOMAIN appointments :
          /\ appointments[i].appointment_date = today
          /\ appointments[i].status = "return"
          /\ appointments[i].cost = Some(40)
          /\ appointments[i].is_return_visit

C13_FailedLookupNeverBilled ==
    /\ \A k \in TotalledPositions : TotalledId(k) \notin erroredLookups
    /\ pc = "done" => erroredLookups = {}

\* C15: computing the daily revenue changes no stored data: no step of
\* fetchTodayStats, in a successful or a failed invocation, creates,
\* modifies or deletes a row of appointments, doctors or patients.
C15_NoStoredDataChanges ==
    [][appointments' = appointments /\ doctors' = doctors /\ patients' = patients]_vars

\* C15 witness: one invocation has failed after totalling an appointment
\* and left the statistics unpublished.
C15_Witness ==
    /\ pc = "failed"
    /\ Len(contributions) >= 1
    /\ todayStats = InitialStats
    /\ ~isLoading

\* The total a call produces when it runs alone over the rows it fetched
\* and the lookup results it received: the fold of the contributions.
RECURSIVE TotalAlone(_, _)
TotalAlone(fetched, lookups) ==
    IF lookups = << >> THEN 0
    ELSE Contribution(fetched[Len(lookups)].row, lookups[Len(lookups)])
            + TotalAlone(fetched, SubSeq(lookups, 1, Len(lookups) - 1))

\* C14: overlapping invocations do not interfere: at every point of every
\* interleaving, the total of each call is the total of a call running
\* alone over the rows and lookup results this call has read so far, and a
\* finished call has totalled every row it fetched.
C14_InvocationsDoNotInterfere ==
    \A c \in DOMAIN invocations :
        LET inv == invocations[c] IN
            /\ inv.pc # "add" => inv.totalRevenue = TotalAlone(inv.fetched, inv.lookups)
            /\ inv.pc = "done" => Len(inv.lookups) = Len(inv.fetched)

\* C14 witness: two calls have finished with different totals, 50 for the
\* one row the first fetched and 90 for the two rows the other fetched.
C14_Witness ==
    \E c, d \in DOMAIN invocations :
        /\ invocations[c].pc = "done"
        /\ invocations[d].pc = "done"
        /\ invocations[c].totalRevenue = 50
        /\ invocations[d].totalRevenue = 90
        /\ Len(invocations[c].fetched) = 1
        /\ Len(invocations[d].fetched) = 2

\* C16: every appointment the quick-booking form creates is inserted with
\* status 'scheduled', on the existing-patient path and on the new-patient
\* path, and the form creates one whenever its request goes through.
C16_QuickBookingInsertsScheduled ==
    \A r \in {lastRequest[k] : k \in DOMAIN lastRequest} :
        r.op = "quickBooking" =>
            /\ r.granted = (r.created # Null)
            /\ r.created # Null =>
                  /\ r.created[1] \in DOMAIN appointments
                  /\ appointments[r.created[1]].status = "scheduled"

\* C16 witness: the form has just booked an appointment for a selected
\* patient, the second of two appointments in the table, both scheduled.
C16_Witness ==
    /\ lastRequest # Null
    /\ lastRequest[1].op = "quickBooking"
    /\ lastRequest[1].path = "existing"
    /\ lastRequest[1].created # Null
    /\ Cardinality(DOMAIN appointments) = 2
    /\ \A i \in DOMAIN appointments : appointments[i].status = "scheduled"

\* the roles of the user a request was made for
RolesOf(uid) == IF uid = Null THEN {} ELSE user_roles[uid[1]]

\* C19: after the security migration a patients row is inserted only for a
\* user holding the admin or receptionist role, deleted only for an admin,
\* read or updated only for staff; a doctor-only user, a patient-role user
\* and a visitor without session insert and delete nothing; and the
\* policies on patients are the four of the migration, none of them FOR ALL.
C19_PatientsPolicyAfterMigration ==
    /\ \A r \in {lastRequest[k] : k \in DOMAIN lastRequest} :
          (r.table = "patients" /\ r.migrated) =>
              /\ r.op = "INSERT" =>
                    (r.granted <=> RolesOf(r.uid) \cap {"admin", "receptionist"} # {})
              /\ r.op = "DELETE" => (r.granted <=> "admin" \in RolesOf(r.uid))
              /\ r.op \in {"SELECT", "UPDATE"} =>
                    (r.granted <=>
                        RolesOf(r.uid) \cap {"admin", "doctor", "receptionist"} # {})
              /\ (r.op \in {"INSERT", "DELETE"}
                    /\ (RolesOf(r.uid) \subseteq {"doctor"}
                          \/ RolesOf(r.uid) \subseteq {"patient"}))
                    => ~r.granted
    /\ \A r \in {lastRequest[k] : k \in DOMAIN lastRequest} :
          (r.op = "quickBooking" /\ r.migrated /\ r.path = "new" /\ r.granted)
              => RolesOf(r.uid) \cap {"admin", "receptionist"} # {}
    /\ SecurityMigrationApplied =>
          /\ {p \in policies : p.table = "patients"} = SecurityPolicies
          /\ \A p \in policies : p.table = "patients" => p.cmd # "ALL"

\* C19 witness: after the migration a doctor's insert of a patient has just
\* been refused, a patient being in the table already.
C19_Witness ==
    /\ lastRequest # Null
    /\ lastRequest[1].migrated
    /\ lastRequest[1].op = "INSERT"
    /\ lastRequest[1].table = "patients"
    /\ lastRequest[1].uid = Some("ud")
    /\ ~lastRequest[1].granted
    /\ patients # {}

\* C17: an appointment whose status is 'completed' or 'cancelled' is
\* immutable: no step removes it or changes one of its columns, and the
\* revenue of a day all of whose appointments are completed never changes.
C17_CompletedIsImmutable ==
    [][/\ \A i \in DOMAIN appointments :
             appointments[i].status \in {"completed", "cancelled"} =>
                 /\ i \in DOMAIN appointments'
                 /\ appointments'[i] = appointments[i]
       /\ \A d \in Days :
             (\A i \in DOMAIN appointments :
                 appointments[i].appointment_date = d => appointments[i].status = "completed")
                 => RevenueOfDay(appointments', d) = RevenueOfDay(appointments, d)]_vars

\* The characters of a LIKE pattern that need escaping.
LikeSpecial == {BackSlash, "%", "_"}

\* Reading an escaped string from the left: a backslash escapes the
\* character after it, which must be a special one; every other character
\* must be an ordinary one.
RECURSIVE WellEscaped(_)
WellEscaped(out) ==
    IF out = << >> THEN TRUE
    ELSE IF Head(out) = BackSlash
         THEN Len(out) >= 2 /\ out[2] \in LikeSpecial /\ WellEscaped(Tail(Tail(out)))
         ELSE Head(out) \notin LikeSpecial /\ WellEscaped(Tail(out))

\* The string left when every escaping backslash is taken out.
RECURSIVE Unescaped(_)
Unescaped(out) ==
    IF out = << >> THEN << >>
    ELSE IF Head(out) = BackSlash /\ Len(out) >= 2
         THEN << out[2] >> \o Unescaped(Tail(Tail(out)))
         ELSE << Head(out) >> \o Unescaped(Tail(out))

NumberOfSpecials(str) == Cardinality({k \in DOMAIN str : str[k] \in LikeSpecial})

\* C18: for a string s, sanitizeSearchInput(s) is s with exactly one
\* backslash inserted before every backslash, '%' and '_': in the result
\* every special character is escaped, no inserted backslash is escaped a
\* second time, and taking the escapes out gives s; an empty string and a
\* value that is no string give ''.
C18_SanitizeEscapesOnce ==
    sanitizedTerm # Null =>
        LET input == searchInput[1]
            out == sanitizedTerm[1]
        IN  IF input.type = "string"
            THEN /\ WellEscaped(out)
                 /\ Unescaped(out) = input.value
                 /\ Len(out) = Len(input.value) + NumberOfSpecials(input.value)
            ELSE out = << >>

\* C18 witness: the string \% has been sanitized to \\\% .
C18_Witness ==
    /\ searchInput = Some(JsString(<< BackSlash, "%" >>))
    /\ sanitizedTerm = Some(<< BackSlash, BackSlash, BackSlash, "%" >>)

\* The text of a configured field of an item: '' when the path meets a
\* missing value (null, undefined, no such key), else the value as a string.
FieldText(value, keys) ==
    LET nested == getNestedValue(value, keys) IN
        IF nested.type = "number"
        THEN (IF nested.value = 0 THEN << "0" >> ELSE << "7" >>)
        ELSE nested.value

\* The comparison form of a string: as it is when caseSensitive is set,
\* else with its letters in lower case.
Folded(str, opts) ==
    IF opts.caseSensitive.type = "boolean" /\ opts.caseSensitive.value = 1
    THEN str
    ELSE [k \in DOMAIN str |-> IF str[k] = "A" THEN "a" ELSE str[k]]

\* C20: filteredData is the sub-list of data, in order, of exactly the
\* items one of whose configured fields contains the search term as a
\* substring (missing values read as '', case folded unless caseSensitive);
\* with an empty term or one shorter than minChars it is data.
C20_FilterIsSubstringFilter ==
    options # Null =>
        LET opts == options[1]
            minimum == IF opts.minChars.type = "number" THEN opts.minChars.value ELSE 0
            Matches(item) ==
                \E k \in DOMAIN opts.fields :
                    LET text == Folded(FieldText(item, opts.fields[k]), opts)
                        term == Folded(searchTerm, opts)
                    IN  \E at \in 0 .. (Len(text) - Len(term)) :
                            SubSeq(text, at + 1, at + Len(term)) = term
        IN  filteredData =
                IF searchTerm = << >> \/ Len(searchTerm) < minimum
                THEN data
                ELSE SelectSeq(data, Matches)

\* C21: after the prior-visit lookup of a return visit, the reference visit
\* is the completed appointment of greatest appointment_date among the
\* other appointments of the same patient and doctor (none when there is no
\* such appointment); the date of an appointment of another patient, of
\* another doctor, of another status, or of the return visit itself has no
\* influence on it.
C21_ReferenceIsMostRecentCompleted ==
    pc = "add" =>
        LET i == completedAppointments[idx] IN
            /\ lastVisit = ReferenceVisit(i)
            /\ lastVisit # Null =>
                  \E j \in OtherCompleted(i) :
                      /\ appointments[j].appointment_date = lastVisit[1]
                      /\ \A k \in OtherCompleted(i) :
                            appointments[k].appointment_date <= lastVisit[1]
            /\ \A j \in DOMAIN appointments :
                  (\/ j = i
                   \/ appointments[j].patient_id # appointments[i].patient_id
                   \/ appointments[j].doctor_id # appointments[i].doctor_id
                   \/ appointments[j].status # "completed")
                  => \A d \in Days :
                        lastVisit =
                            ReferenceVisitIn([appointments EXCEPT ![j].appointment_date = d], i)

\* C21 witness: the lookup of the return visit of p1 with d1 has returned
\* the completed visit of p1 with d1 of the day before, the table also holding
\* a later completed visit of p1 with the other doctor.
C21_Witness ==
    /\ pc = "add"
    /\ completedAppointments[idx] = 1
    /\ lastVisit = Some(Today - 1)
    /\ \E j, k \in DOMAIN appointments :
          /\ appointments[j].patient_id = "p1"
          /\ appointments[j].doctor_id = "d1"
          /\ appointments[j].status = "completed"
          /\ appointments[j].appointment_date = Today - 1
          /\ appointments[k].patient_id = "p1"
          /\ appointments[k].doctor_id = "d2"
          /\ appointments[k].status = "completed"
          /\ appointments[k].appointment_date = Today

\* The statistics of the evaluated day on the table as it is.
StatisticsOfTheDay ==
    LET ofDay == {i \in DOMAIN appointments : appointments[i].appointment_date = today} IN
        [appointments |-> Cardinality(ofDay),
         waiting |-> Cardinality({i \in ofDay :
                                     appointments[i].status \in {"scheduled", "waiting"}}),
         revenue |-> RevenueOfDay(appointments, today),
         completed |-> Cardinality({i \in ofDay : appointments[i].status = "completed"})]

\* An invocation that read the table as it is now: it fetched exactly the
\* completed appointments the day has, each with the values it has.
SawFinalDatabase(c) ==
    /\ invocations[c].pc # "idle"
    /\ {invocations[c].fetched[k].id : k \in DOMAIN invocations[c].fetched}
          = {i \in DOMAIN appointments :
                /\ appointments[i].appointment_date = today
                /\ appointments[i].status = "completed"}
    /\ \A k \in DOMAIN invocations[c].fetched :
          invocations[c].fetched[k].row = appointments[invocations[c].fetched[k].id]

\* C22: when every overlapping invocation has finished and one of them
\* started after the last change of the database, todayStats are the
\* statistics of the final database state: an invocation that started
\* earlier has not overwritten them.
C22_ConvergesToFinalDatabase ==
    (/\ \A c \in DOMAIN invocations : invocations[c].pc = "done"
     /\ \E c \in DOMAIN invocations : SawFinalDatabase(c))
    => todayStats = StatisticsOfTheDay

\* An invocation between its setIsLoading(true) and its finally block.
InFlight(c) == invocations[c].pc \in {"loop", "add"}

\* C28: isLoading is true in every state in which at least one
\* fetchTodayStats invocation is still in flight.
C28_LoadingWhileInFlight ==
    (\E c \in DOMAIN invocations : InFlight(c)) => isLoading

\* C23: when allowedRoles is supplied, children are rendered only for a
\* signed-in user whose role is known and contained in allowedRoles.
C23_RoleGate ==
    (/\ auth # Null
     /\ routeProps[1].allowedRoles # Null
     /\ rendered = Some("children"))
    => /\ auth[1].user # Null
       /\ auth[1].userRole # Null
       /\ auth[1].userRole[1] \in routeProps[1].allowedRoles[1]

\* C30: with requireAuth true (the default) children are never rendered
\* while the auth state is loading or when no user is signed in, and once
\* loading has finished with no user the effect navigates to '/auth';
\* children are rendered for a visitor who is not signed in only when
\* requireAuth is false.
C30_AuthenticationGate ==
    auth # Null =>
        /\ (routeProps[1].requireAuth # Some(FALSE)) =>
              /\ rendered = Some("children") => ~auth[1].loading /\ auth[1].user # Null
              /\ (~auth[1].loading /\ auth[1].user = Null) => navigated = Some("/auth")
        /\ (rendered = Some("children") /\ auth[1].user = Null) =>
              routeProps[1].requireAuth = Some(FALSE)

\* C30 witness: requireAuth is left out, loading has finished with no user:
\* the component has returned null and its effect has navigated to '/auth'.
C30_Witness ==
    /\ auth # Null
    /\ routeProps[1].requireAuth = Null
    /\ ~auth[1].loading
    /\ auth[1].user = Null
    /\ rendered = Some("null")
    /\ navigated = Some("/auth")

\* C24: after a successful role change of user u to role r, u has exactly
\* one user_roles row and its role is r, so u holds no other role; after a
\* change made on the Users page the role shown there for u is r.
C24_RoleChangeReplaces ==
    (lastRoleChange # Null /\ lastRoleChange[1].ok) =>
        LET u == lastRoleChange[1].user_id
            r == lastRoleChange[1].role
        IN  /\ {row \in roleRows : row.user_id = u} = {[user_id |-> u, role |-> r]}
            /\ \A other \in user_role \ {r} : [user_id |-> u, role |-> other] \notin roleRows
            /\ lastRoleChange[1].handler \in {"updateUserRole", "handleEditUser"}
                  => shownRoles[1][u] = r

C27_EditPreservesUntouchedFees ==
    [][(selectedDoctor # Null /\ selectedDoctor' = Null) =>
          LET before == doctors[selectedDoctor[1]][1]
              after == doctors'[selectedDoctor[1]][1]
          IN  \A field \in {"consultation_fee", "return_consultation_fee",
                            "free_return_days"} :
                  field \notin touched => after[field] = before[field]]_vars

\* The patients a term stands for: those whose name or phone contains the
\* trimmed term, letters compared without case.
PatientsContaining(term) ==
    LET Lower(str) == [k \in DOMAIN str |-> IF str[k] = "A" THEN "a" ELSE str[k]]
        Contains(str, part) ==
            \E at \in 0 .. (Len(str) - Len(part)) :
                SubSeq(str, at + 1, at + Len(part)) = part
    IN  {p \in SearchedPatients :
            \/ Contains(Lower(p.full_name), Lower(Trim(term)))
            \/ Contains(Lower(p.phone), Lower(Trim(term)))}

\* C26: once no searchPatient request is pending (and the request of the
\* latest term has not failed), searchResults are the results of the most
\* recently entered term, and are empty if that term has fewer than 2
\* characters; no query is sent whose pattern is empty.
C26_SearchShowsLatestQuery ==
    /\ (/\ searches # << >>
        /\ \A n \in DOMAIN searches : searches[n].state # "pending"
        /\ searches[Len(searches)].state # "failed")
       => searchResults =
              IF Len(searches[Len(searches)].term) < 2 THEN {}
              ELSE PatientsContaining(searches[Len(searches)].term)
    /\ \A n \in DOMAIN searches :
          searches[n].pattern # Null => searches[n].pattern[1] # << >>

\* C29: for every interleaving of fetchSettings invocations the table
\* center_settings holds at most one row.
C29_SettingsStaySingleton ==
    Cardinality(centerSettings) <= 1

====
